---- MODULE Spec2Model ----
(***************************************************************************)
(* A model of the awake-lock fallback-strategy orchestration engine: the  *)
(* WakeLock coordinator (src/src/types.ts, class WakeLock), the sentinels *)
(* of its four capability strategies, the PerformanceMonitor start/stop   *)
(* and the PermissionManager passive check.                               *)
(*                                                                         *)
(* JavaScript runs one handler at a time; an async function gives up      *)
(* control at an await.  Every action below is the code between two       *)
(* suspension points of one handler.                                       *)
(***************************************************************************)
EXTENDS Integers, Sequences, FiniteSets, TLC

----------------------------------------------------------------------------
(* Bounds of the model *)

\* request() calls made on the instance in one behaviour; call c uses slot c
MaxRequests == 2
\* sentinels the strategies create in one behaviour
MaxSentinels == 4
\* platform signals and destroy() calls per behaviour
MaxSignals == 2

(* Program constants *)

\* request(): timeout: options.timeout ?? 30000
DefaultTimeout == 30000
\* VideoElementStrategy.setupVideoElement: 'Video setup timeout' timer
VideoSetupTimeout == 10000
\* AudioContextStrategy.setupAudioContext: checkRunning gives up after 5000 ms
AudioStartLimit == 5000

----------------------------------------------------------------------------
(* Strategies: one instance of each class, named by its `name` field *)

Native == "screen-wake-lock"
Video == "video-element"
Audio == "audio-context"
Timer == "timer"

StrategyNames == {Native, Video, Audio, Timer}

priority(s) ==
  CASE s = Native -> 1
    [] s = Video -> 2
    [] s = Audio -> 3
    [] s = Timer -> 4

WakeLockTypes == {"screen", "system"}

NoSentinel == 0
NoStrategy == "null"

\* Array.prototype.sort with (a, b) => a.priority - b.priority (stable):
\* insertion of each element after the elements whose priority is not greater
RECURSIVE InsertByPriority(_, _)
InsertByPriority(sorted, s) ==
  IF sorted = <<>> THEN <<s>>
  ELSE IF priority(Head(sorted)) <= priority(s)
       THEN <<Head(sorted)>> \o InsertByPriority(Tail(sorted), s)
       ELSE <<s>> \o sorted

RECURSIVE SortByPriority(_)
SortByPriority(list) ==
  IF list = <<>> THEN <<>>
  ELSE InsertByPriority(SortByPriority(SubSeq(list, 1, Len(list) - 1)), list[Len(list)])

\* a constructor that keeps the configured list as it is
ConstructAsConfigured(configured, supported) == configured

\* the constructor's this.strategies: sorted by priority, then filtered by isSupported()
ConstructStrategies(configured, supported) ==
  SelectSeq(SortByPriority(configured), LAMBDA s : s \in supported)

\* Array.prototype.indexOf: the first index holding the element (1-based here,
\* 0 when absent, where JavaScript is 0-based with -1)
indexOf(list, s) ==
  IF \E i \in 1..Len(list) : list[i] = s
  THEN CHOOSE i \in 1..Len(list) : list[i] = s /\ \A j \in 1..(i - 1) : list[j] # s
  ELSE 0

----------------------------------------------------------------------------
(* Errors.  A message is the sequence of its words, so that                *)
(* message.includes('timeout') is computed on the text the code builds.    *)

MsgTimedOut == <<"Operation", "timed", "out", "after", "ms">>
MsgAborted == <<"Operation", "was", "aborted">>
MsgVideoSetupTimeout == <<"Video", "setup", "timeout">>
MsgVideoFailed == <<"Video", "failed", "to", "load">>
MsgAudioFailed == <<"Audio", "context", "failed", "to", "start">>
MsgNotSupported == <<"Not", "supported">>
MsgDenied == <<"Permission", "denied">>

includes(message, word) == \E i \in 1..Len(message) : message[i] = word

NoError == [name |-> "none", message |-> <<>>]

\* helpers.ts createTimeout: the two rejections of the timeout promise
TimeoutError == [name |-> "Error", message |-> MsgTimedOut]
AbortedError == [name |-> "Error", message |-> MsgAborted]

\* what the platform may answer to navigator.wakeLock.request
NativeErrors ==
  { [name |-> "NotAllowedError", message |-> MsgDenied],
    [name |-> "NotSupportedError", message |-> MsgNotSupported],
    [name |-> "Error", message |-> MsgNotSupported] }

\* ScreenWakeLockStrategy.request catch block: switch (error.name)
NativeErrorCode(error) ==
  CASE error.name = "NotAllowedError" -> "PERMISSION_DENIED"
    [] error.name = "NotSupportedError" -> "NOT_SUPPORTED"
    [] error.name = "AbortError" -> "TIMEOUT"
    [] OTHER -> IF includes(error.message, "timeout") THEN "TIMEOUT" ELSE "UNKNOWN"

\* VideoElementStrategy.request / AudioContextStrategy.request catch block
SetupErrorCode(error) ==
  IF includes(error.message, "timeout") THEN "TIMEOUT" ELSE "STRATEGY_FAILED"

\* the code of the WakeLockError a strategy's request() rejects with
StrategyErrorCode(s, error) ==
  IF s = Native THEN NativeErrorCode(error) ELSE SetupErrorCode(error)

\* Acquisition latencies of the platform (ms) and the results it may give
Latencies == {500, 20000, 40000}

PlatformResults(s) ==
  CASE s = Native -> {[ok |-> TRUE, error |-> NoError]}
                       \cup {[ok |-> FALSE, error |-> e] : e \in NativeErrors}
    [] s = Video -> {[ok |-> TRUE, error |-> NoError],
                     [ok |-> FALSE, error |-> [name |-> "Error", message |-> MsgVideoFailed]]}
    [] s = Audio -> {[ok |-> TRUE, error |-> NoError],
                     [ok |-> FALSE, error |-> [name |-> "NotAllowedError", message |-> MsgDenied]]}
    [] OTHER -> {[ok |-> TRUE, error |-> NoError]}

\* The promise the strategy races against the timeout: when it settles and how.
\*  native: navigator.wakeLock.request(type)
\*  video:  setupVideoElement, whose own 10 s timer rejects 'Video setup timeout'
\*  audio:  setupAudioContext, whose checkRunning rejects after 5 s
SetupSettles(s, latency, result) ==
  CASE s = Video /\ latency > VideoSetupTimeout ->
         [at |-> VideoSetupTimeout, ok |-> FALSE,
          error |-> [name |-> "Error", message |-> MsgVideoSetupTimeout]]
    [] s = Audio /\ latency > AudioStartLimit ->
         [at |-> AudioStartLimit, ok |-> FALSE,
          error |-> [name |-> "Error", message |-> MsgAudioFailed]]
    [] OTHER -> [at |-> latency, ok |-> result.ok, error |-> result.error]

\* helpers.ts withTimeout: Promise.race([promise, createTimeout(ms, signal)]).
\* abortAt = 0: no abort signal fires.  The result names the winner.
withTimeout(setup, ms, abortAt) ==
  LET timerWins == ms < setup.at /\ (abortAt = 0 \/ ms < abortAt)
      abortWins == abortAt # 0 /\ abortAt < setup.at /\ abortAt <= ms
  IN  IF abortWins THEN [ok |-> FALSE, error |-> AbortedError, abandoned |-> TRUE]
      ELSE IF timerWins THEN [ok |-> FALSE, error |-> TimeoutError, abandoned |-> TRUE]
      ELSE [ok |-> setup.ok, error |-> setup.error, abandoned |-> FALSE]

\* strategy.request's  timeout > 0 ? await withTimeout(...) : await promise
AwaitSetup(setup, timeout, abortAt) ==
  IF timeout > 0 THEN withTimeout(setup, timeout, abortAt)
  ELSE [ok |-> setup.ok, error |-> setup.error, abandoned |-> FALSE]

----------------------------------------------------------------------------
(* State *)

VARIABLES
  strategies,       \* WakeLock.strategies: supported strategies in priority order
  config,           \* WakeLock.options: batteryOptimization, performanceMonitoring, passive
  env,              \* the platform: window/document present or not (ssr), battery source,
                    \* permission states, passive heuristics
  activeSentinel,   \* WakeLock.activeSentinel: a sentinel id, or NoSentinel for null
  currentStrategy,  \* WakeLock.currentStrategy: a strategy name, or NoStrategy for null
  isReleasing,      \* WakeLock.isReleasing
  sentinels,        \* every sentinel created so far, by id
  activeSets,       \* per strategy: the ids in activeSentinels/activeElements/activeContexts/activeTimers
  monitor,          \* PerformanceMonitor: isMonitoring, monitoringTimer, battery handlers
  events,           \* notifications emitted by the WakeLock since the latest call began while nothing was in flight
  req,              \* the request() calls: where each is suspended and its locals
  rel,              \* the one release() call that can be past its guard
  abandoned,        \* platform acquisitions still running after their strategy gave up on them
  orphans,          \* platform resources held that no sentinel tracks
  permissionCache,  \* PermissionManager.permissionCache, by kind
  cacheTimestamps,  \* PermissionManager.cacheTimestamps, by kind (0: no entry)
  now,              \* Date.now()
  battery,          \* the platform's BatteryManager: level (percent) and charging
  lastCall,         \* the latest public call that returned, and how
  hidden,           \* document.visibilityState === 'hidden'
  destroyed,        \* destroy() has been called on the instance
  listening,        \* the subscribers registered on the WakeLock are still attached
  lastSignal,       \* the latest platform signal or destroy() handled, and the sentinel active then
  signals,          \* platform signals and destroy() calls so far
  direct,           \* sentinels whose own release(), called by their holder, awaits the platform
  sweep,            \* the strategy.release() call in progress or just returned: the strategy,
                    \* the sentinels it found in the active set, where it is
  lastCheck,        \* the latest checkPermissions() / canRequestWithoutPrompt() call made by
                    \* a caller: its argument, what it found in the cache, what the
                    \* platform reported, what it returned
  emitter           \* an EventEmitter used on its own, for one event type: its listeners
                    \* and onceListeners in insertion order, and what its listeners count

vars == <<strategies, config, env, activeSentinel, currentStrategy, isReleasing, sentinels,
          activeSets, monitor, events, req, rel, abandoned, orphans, permissionCache,
          cacheTimestamps, now, battery, lastCall, hidden, destroyed, listening, lastSignal,
          signals, direct, sweep, lastCheck, emitter>>

\* what the handlers below never assign
fixed == <<strategies, config, env, now>>

\* The mutable state as one record, so that a handler is the composition of the
\* steps it performs, in the order the code performs them.
Cur ==
  [activeSentinel |-> activeSentinel, currentStrategy |-> currentStrategy,
   isReleasing |-> isReleasing, sentinels |-> sentinels, activeSets |-> activeSets,
   monitor |-> monitor, events |-> events, req |-> req, rel |-> rel,
   abandoned |-> abandoned, orphans |-> orphans, permissionCache |-> permissionCache,
   cacheTimestamps |-> cacheTimestamps, lastCall |-> lastCall, battery |-> battery,
   hidden |-> hidden, destroyed |-> destroyed, listening |-> listening,
   lastSignal |-> lastSignal, signals |-> signals, direct |-> direct, sweep |-> sweep,
   lastCheck |-> lastCheck, emitter |-> emitter]

Assigns(st) ==
  /\ activeSentinel' = st.activeSentinel
  /\ currentStrategy' = st.currentStrategy
  /\ isReleasing' = st.isReleasing
  /\ sentinels' = st.sentinels
  /\ activeSets' = st.activeSets
  /\ monitor' = st.monitor
  /\ events' = st.events
  /\ req' = st.req
  /\ rel' = st.rel
  /\ abandoned' = st.abandoned
  /\ orphans' = st.orphans
  /\ permissionCache' = st.permissionCache
  /\ cacheTimestamps' = st.cacheTimestamps
  /\ lastCall' = st.lastCall
  /\ battery' = st.battery
  /\ hidden' = st.hidden
  /\ destroyed' = st.destroyed
  /\ listening' = st.listening
  /\ lastSignal' = st.lastSignal
  /\ signals' = st.signals
  /\ direct' = st.direct
  /\ sweep' = st.sweep
  /\ lastCheck' = st.lastCheck
  /\ emitter' = st.emitter

Becomes(st) == Assigns(st) /\ UNCHANGED fixed

Calls == 1..MaxRequests

IdleRequest ==
  [pc |-> "idle", type |-> "screen", passive |-> FALSE, timeout |-> 0, abortAt |-> 0,
   i |-> 0, phase |-> 0, sentinel |-> NoSentinel, error |-> "none", during |-> {},
   afterDestroy |-> FALSE]

IdleRelease == [pc |-> "idle", sentinel |-> NoSentinel, failed |-> FALSE]

NoSignal == [kind |-> "none", sentinel |-> NoSentinel]

\* The listener functions registered on the EventEmitter: one that only counts, and
\* one that, the first time it runs, emits the same event type again
Listeners == {"plain", "reentrant"}

\* onceInvoked: how often each listener has been invoked as a once() listener since
\* it was registered with once(); reemitted: the reentrant listener has emitted
NoEmitter ==
  [listeners |-> <<>>, onceListeners |-> <<>>, onceInvoked |-> [l \in Listeners |-> 0],
   reemitted |-> FALSE, emits |-> 0]

\* Date.now() when the instance is constructed
InitialTime == 1000

NoCheck ==
  [op |-> "none", type |-> "screen", entry |-> "null", age |-> -1, platform |-> "null",
   value |-> "null", at |-> 0]

NoSweep == [pc |-> "idle", strategy |-> NoStrategy, ids |-> {}]

StoppedMonitor == [isMonitoring |-> FALSE, monitoringTimer |-> FALSE, subscribed |-> FALSE]

PermissionStates == {"granted", "denied", "prompt", "null"}

\* The deployments explored: the strategies option given to the constructor (before
\* sorting), the strategies the platform supports, the other options, the platform's
\* battery source, permission states and passive-mode heuristics, the battery state
Deployment(list, supported, optimize, monitoring, passive, wakeLockPermission, screenPermission, recommended, hasBattery, level) ==
  [configured |-> list, supported |-> supported,
   config |-> [strategies |-> list, batteryOptimization |-> optimize,
               performanceMonitoring |-> monitoring, passive |-> passive],
   env |-> [ssr |-> FALSE, worker |-> FALSE, mobile |-> FALSE, supported |-> supported,
            battery |-> hasBattery,
            wakeLockPermission |-> wakeLockPermission,
            screenPermission |-> screenPermission, passiveRecommended |-> recommended],
   battery |-> [level |-> level, charging |-> FALSE]]

\* the same without window and document: isSSR() is true, and no strategy is supported
ServerSide(d) == [d EXCEPT !.env.ssr = TRUE, !.env.supported = {}, !.supported = {}]

Deployments ==
  { Deployment(<<>>, StrategyNames, TRUE, TRUE, FALSE, "null", "granted", FALSE, TRUE, 80),
    Deployment(<<Native>>, StrategyNames, TRUE, TRUE, FALSE, "null", "granted", FALSE, TRUE, 80),
    Deployment(<<Timer, Native>>, StrategyNames, FALSE, TRUE, FALSE, "prompt", "null", TRUE,
               FALSE, 80),
    Deployment(<<Native, Video, Audio, Timer>>, StrategyNames \ {Native, Audio}, TRUE, TRUE,
               FALSE, "null", "null", TRUE, TRUE, 10),
    Deployment(<<Video, Audio>>, StrategyNames, FALSE, TRUE, TRUE, "null", "prompt", FALSE,
               FALSE, 80),
    Deployment(<<Native, Native, Timer>>, StrategyNames, TRUE, FALSE, FALSE, "granted", "null",
               FALSE, TRUE, 80),
    ServerSide(Deployment(<<Native, Timer>>, {}, TRUE, TRUE, FALSE, "null", "null", TRUE,
                          FALSE, 80)) }

\* the deployments explored with overlapping calls
OverlappingDeployments ==
  { Deployment(<<Native>>, StrategyNames, TRUE, TRUE, FALSE, "null", "granted", FALSE, TRUE, 80),
    Deployment(<<Timer, Native>>, StrategyNames, FALSE, FALSE, FALSE, "prompt", "null", TRUE,
               FALSE, 80) }

InitOf(deployments) ==
  /\ \E d \in deployments :
       /\ strategies = ConstructStrategies(d.configured, d.supported)
       /\ config = d.config
       /\ env = d.env
       /\ battery = d.battery
  /\ activeSentinel = NoSentinel
  /\ currentStrategy = NoStrategy
  /\ isReleasing = FALSE
  /\ sentinels = <<>>
  /\ activeSets = [s \in StrategyNames |-> {}]
  /\ monitor = StoppedMonitor
  /\ events = <<>>
  /\ req = [c \in Calls |-> IdleRequest]
  /\ rel = IdleRelease
  /\ abandoned = {}
  /\ orphans = {}
  /\ permissionCache = [t \in WakeLockTypes |-> "null"]
  /\ cacheTimestamps = [t \in WakeLockTypes |-> 0]
  /\ now = InitialTime
  /\ lastCall = "none"
  /\ hidden = FALSE
  /\ destroyed = FALSE
  /\ listening = TRUE
  /\ lastSignal = NoSignal
  /\ signals = 0
  /\ direct = {}
  /\ sweep = NoSweep
  /\ lastCheck = NoCheck
  /\ emitter = NoEmitter

Init == InitOf(Deployments)

InitOverlapping == InitOf(OverlappingDeployments)

----------------------------------------------------------------------------
(* Building blocks: each maps a state record to the state record after it *)

\* EventEmitter.emit on the WakeLock: subscribers receive the notification
emit(st, type, a, b) ==
  [st EXCEPT !.events = Append(@, [type |-> type, a |-> a, b |-> b])]

\* the sentinel's `released` getter: the native wrapper ORs in the native sentinel's flag
released(st, id) ==
  st.sentinels[id].released \/ st.sentinels[id].native = "released"

\* PerformanceMonitor.stop
stop(st) ==
  IF ~st.monitor.isMonitoring THEN st
  ELSE [st EXCEPT !.monitor = StoppedMonitor]

\* WakeLock.getStatus: isActive, type, strategy
getStatus(st) ==
  [isActive |-> st.activeSentinel # NoSentinel /\ ~released(st, st.activeSentinel),
   type |-> IF st.activeSentinel # NoSentinel THEN st.sentinels[st.activeSentinel].type
            ELSE "null",
   strategy |-> st.currentStrategy]

\* WakeLock.isSupported
isSupported == ~env.ssr /\ Len(strategies) > 0

\* WakeLock.setupSentinelListeners: the onRelease closure of sentinel id
onRelease(st, id) ==
  IF st.activeSentinel = id
  THEN LET s1 == emit(st, "disabled", st.sentinels[id].type, "automatic-release")
           s2 == [s1 EXCEPT !.activeSentinel = NoSentinel, !.currentStrategy = NoStrategy]
       IN  stop(s2)
  ELSE st

\* one release listener called: the WakeLock's onRelease closure, or the listener a
\* caller registered on the sentinel, whose invocations are counted
callListener(st, id, listener) ==
  IF listener = "onRelease" THEN onRelease(st, id)
  ELSE [st EXCEPT !.sentinels[id].calls = @ + 1]

\* for (const listener of listeners) listener()
RECURSIVE callListeners(_, _, _)
callListeners(st, id, listeners) ==
  IF listeners = {} THEN st
  ELSE LET l == CHOOSE x \in listeners : TRUE
       IN  callListeners(callListener(st, id, l), id, listeners \ {l})

----------------------------------------------------------------------------
(* TimerStrategy: the intervals and the worker kept for one timer sentinel *)

DEFAULT_INTERVAL == 1000
AGGRESSIVE_INTERVAL == 500

\* worker.onerror events delivered for one sentinel
MaxWorkerErrors == 2

\* intervals: the intervals of the page still scheduled, each with its handle and
\* period; intervalId: the handle the activeTimers record holds; worker: the worker's
\* life ("none", "idle", "ticking", "closed", "terminated") and the period it ticks at;
\* hasWorker: the record's worker field is set; interval: the period request() chose;
\* listening: the 'visibilitychange' listener is registered; adjusted: it has run;
\* errors: the worker errors delivered
NoTimer ==
  [intervals |-> {}, intervalId |-> 0, next |-> 1, worker |-> "none", workerMs |-> 0,
   hasWorker |-> FALSE, interval |-> 0, listening |-> FALSE, adjusted |-> FALSE,
   errors |-> 0]

\* setInterval(callback, ms): the handle returned is t.next
setInterval(t, ms) ==
  [t EXCEPT !.intervals = @ \cup {[id |-> t.next, ms |-> ms]}, !.next = @ + 1]

clearInterval(t, handle) ==
  [t EXCEPT !.intervals = {x \in @ : x.id # handle}]

\* the activeTimers record createSentinel stores: intervalId is a placeholder interval
timerRecord == [setInterval(NoTimer, 0) EXCEPT !.intervalId = NoTimer.next]

\* setupMainThreadTimer: a new interval, whose handle replaces the record's intervalId
setupMainThreadTimer(t, ms) ==
  [setInterval(t, ms) EXCEPT !.intervalId = t.next]

\* WORKER_SCRIPT's onmessage; a worker that has closed itself or was terminated
\* processes no message
workerOnMessage(t, action, ms) ==
  IF t.worker \notin {"idle", "ticking"} THEN t
  ELSE IF action = "start"
  THEN [t EXCEPT !.worker = "ticking", !.workerMs = IF ms = 0 THEN DEFAULT_INTERVAL ELSE ms]
  ELSE [t EXCEPT !.worker = "closed", !.workerMs = 0]

\* setupWorkerTimer: new Worker, postMessage start, the record's worker field set
setupWorkerTimer(t, ms) ==
  [workerOnMessage([t EXCEPT !.worker = "idle"], "start", ms) EXCEPT !.hasWorker = TRUE]

shouldUseWorker == env.worker

determineInterval == IF env.mobile THEN AGGRESSIVE_INTERVAL ELSE DEFAULT_INTERVAL

\* TimerStrategy.request after createSentinel: the timer set up by the mechanism
\* chosen, then setupVisibilityHandling
timerRequest ==
  LET t == [timerRecord EXCEPT !.interval = determineInterval]
      t1 == IF shouldUseWorker THEN setupWorkerTimer(t, t.interval)
            ELSE setupMainThreadTimer(t, t.interval)
  IN  [t1 EXCEPT !.listening = TRUE]

adjustTimerAggression(t, aggressive) ==
  LET newInterval == IF aggressive THEN AGGRESSIVE_INTERVAL ELSE DEFAULT_INTERVAL
  IN  IF t.hasWorker
      THEN workerOnMessage(workerOnMessage(t, "stop", 0), "start", newInterval)
      ELSE setupMainThreadTimer(clearInterval(t, t.intervalId), newInterval)

\* the try block of TimerStrategy.releaseSentinel
timerCleanup(t) ==
  LET t1 == IF t.hasWorker
            THEN [workerOnMessage(t, "stop", 0) EXCEPT !.worker = "terminated",
                                                       !.workerMs = 0, !.hasWorker = FALSE]
            ELSE t
      t2 == IF t1.intervalId # 0 THEN clearInterval(t1, t1.intervalId) ELSE t1
  IN  [t2 EXCEPT !.listening = FALSE]

\* worker.onerror: fall back to a main-thread timer with the period request() chose
workerOnError(t) ==
  [setupMainThreadTimer(t, t.interval) EXCEPT !.errors = @ + 1]

\* the callback of a main-thread interval: it clears its own interval once the
\* sentinel is released
mainThreadTick(t, handle, isReleased) ==
  IF isReleased THEN clearInterval(t, handle) ELSE t

\* the 'visibilitychange' listener setupVisibilityHandling registered for sentinel id
timerVisibilityChange(st, id) ==
  LET t == st.sentinels[id].timer
  IN  IF ~t.listening \/ id \notin st.activeSets[Timer] \/ st.sentinels[id].released
      THEN st
      ELSE [st EXCEPT !.sentinels[id].timer =
                         [adjustTimerAggression(t, st.hidden) EXCEPT !.adjusted = TRUE]]

\* 'visibilitychange' delivered to the listeners of the timer sentinels
RECURSIVE timersVisibilityChange(_, _)
timersVisibilityChange(st, ids) ==
  IF ids = {} THEN st
  ELSE LET id == CHOOSE x \in ids : TRUE
       IN  timersVisibilityChange(timerVisibilityChange(st, id), ids \ {id})

\* a sentinel release whose finally block leaves the released flag as it was
releaseFinallyKeepsFlag(st, id) ==
  LET s1 == [st EXCEPT !.activeSets[st.sentinels[id].strategy] = @ \ {id}]
      s2 == callListeners(s1, id, s1.sentinels[id].listeners)
  IN  [s2 EXCEPT !.sentinels[id].listeners = {}]

\* the finally block every sentinel release ends with: mark released, leave the
\* strategy's active set, notify the release listeners, clear them; for a timer
\* sentinel, after the try block that stops its timer
releaseFinally(st, id) ==
  LET s1 == [st EXCEPT !.sentinels[id].released = TRUE,
                       !.sentinels[id].timer = timerCleanup(@),
                       !.activeSets[st.sentinels[id].strategy] = @ \ {id}]
      s2 == callListeners(s1, id, s1.sentinels[id].listeners)
  IN  [s2 EXCEPT !.sentinels[id].listeners = {}]

----------------------------------------------------------------------------
(* PermissionManager *)

\* 5 * 60 * 1000
cacheExpiryTime == 300000

\* a getCachedPermission for which an entry as old as the expiry is already too old
getCachedPermissionBefore(st, type) ==
  IF st.cacheTimestamps[type] = 0 \/ now - st.cacheTimestamps[type] >= cacheExpiryTime
  THEN [value |-> "null",
        st |-> [st EXCEPT !.permissionCache[type] = "null", !.cacheTimestamps[type] = 0]]
  ELSE [value |-> st.permissionCache[type], st |-> st]

\* getCachedPermission: the entry, unless absent or older than the expiry, when it is deleted
getCachedPermission(st, type) ==
  IF st.cacheTimestamps[type] = 0 \/ now - st.cacheTimestamps[type] > cacheExpiryTime
  THEN [value |-> "null",
        st |-> [st EXCEPT !.permissionCache[type] = "null", !.cacheTimestamps[type] = 0]]
  ELSE [value |-> st.permissionCache[type], st |-> st]

setCachedPermission(st, type, permission) ==
  [st EXCEPT !.permissionCache[type] = permission, !.cacheTimestamps[type] = now]

\* checkWakeLockPermission(type, passive): the state returned and the cache after it
checkWakeLockPermission(st, type, passive) ==
  LET cached == getCachedPermission(st, type)
  IN  IF cached.value # "null" THEN cached
      ELSE IF env.wakeLockPermission # "null"
      THEN [value |-> env.wakeLockPermission,
            st |-> setCachedPermission(cached.st, type, env.wakeLockPermission)]
      ELSE IF type = "screen" /\ env.screenPermission # "null"
      THEN [value |-> env.screenPermission,
            st |-> setCachedPermission(cached.st, type, env.screenPermission)]
      ELSE IF passive
      THEN [value |-> "granted", st |-> setCachedPermission(cached.st, type, "granted")]
      ELSE [value |-> "null", st |-> cached.st]

\* canRequestWithoutPrompt(type)
canRequestWithoutPrompt(st, type) ==
  LET checked == checkWakeLockPermission(st, type, TRUE)
  IN  [value |-> checked.value \in {"granted", "denied"}, st |-> checked.st]

\* isPassiveModeRecommended: the OR of the platform heuristics, a hidden document among them
isPassiveModeRecommended(st) == env.passiveRecommended \/ st.hidden

----------------------------------------------------------------------------
(* Sentinels *)

\* createWrappedSentinel / createSentinel, and the strategy adding it to its active set
createSentinel(st, s, type) ==
  LET id == Len(st.sentinels) + 1
  IN  [st EXCEPT !.sentinels = Append(@, [strategy |-> s, type |-> type, released |-> FALSE,
                                          native |-> IF s = Native THEN "held" ELSE "none",
                                          listeners |-> {}, nativeListeners |-> {},
                                          subscribed |-> FALSE, calls |-> 0,
                                          timer |-> IF s = Timer THEN timerRequest
                                                    ELSE NoTimer]),
                 !.activeSets[s] = @ \cup {id}]

\* an addEventListener that makes the sentinel usable again
addEventListenerRearms(st, id, listener) ==
  [st EXCEPT !.sentinels[id].listeners = @ \cup {listener},
             !.sentinels[id].released = FALSE]

\* sentinel.addEventListener('release', listener): the native wrapper also
\* registers the listener on the native sentinel
addEventListener(st, id, listener) ==
  [st EXCEPT !.sentinels[id].listeners = @ \cup {listener},
             !.sentinels[id].nativeListeners =
                IF st.sentinels[id].strategy = Native THEN @ \cup {listener} ELSE @]

\* a native 'release' event whose first listener does not mark the wrapper
nativeReleaseEventUnmarked(st, id) == callListeners(st, id, st.sentinels[id].nativeListeners)

\* The platform's 'release' event on a native sentinel: first the listener
\* createWrappedSentinel registered, then the listeners registered through the wrapper
nativeReleaseEvent(st, id) ==
  LET s1 == IF ~st.sentinels[id].released
            THEN [st EXCEPT !.sentinels[id].released = TRUE,
                            !.activeSets[Native] = @ \ {id}]
            ELSE st
  IN  callListeners(s1, id, s1.sentinels[id].nativeListeners)

\* the holder of sentinel id registers its own release listener; whether the sentinel
\* was still unreleased then is remembered
subscribe(st, id) ==
  LET s1 == IF released(st, id) THEN st ELSE [st EXCEPT !.sentinels[id].subscribed = TRUE]
  IN  addEventListener(s1, id, "caller")

\* sentinel.release() called by the holder of the sentinel, up to its first suspension
sentinelRelease(st, id) ==
  LET s == st.sentinels[id].strategy
  IN  IF st.sentinels[id].released \/ (s # Native /\ id \notin st.activeSets[s])
      THEN st
      ELSE IF s \in {Native, Audio}
      THEN [st EXCEPT !.direct = @ \cup {id}]
      ELSE releaseFinally(st, id)

\* the platform call awaited by that release() settles, and the finally block runs
sentinelReleaseSettles(st, id, ok) ==
  LET s1 == IF st.sentinels[id].native = "held" /\ ok
            THEN nativeReleaseEvent([st EXCEPT !.sentinels[id].native = "released"], id)
            ELSE st
      s2 == releaseFinally(s1, id)
  IN  [s2 EXCEPT !.direct = @ \ {id}]

\* the release of the sentinels ids, one after the other, each up to its first suspension
RECURSIVE releaseEach(_, _)
releaseEach(st, ids) ==
  IF ids = {} THEN st
  ELSE LET id == CHOOSE x \in ids : TRUE
       IN  releaseEach(sentinelRelease(st, id), ids \ {id})

\* a strategy.release() that releases one of its sentinels only
strategyReleaseFirstOnly(st, s) ==
  LET ids == st.activeSets[s]
      one == IF ids = {} THEN {} ELSE {CHOOSE x \in ids : TRUE}
  IN  [releaseEach(st, one) EXCEPT !.sweep = [pc |-> "wait", strategy |-> s, ids |-> ids]]

\* strategy.release() up to `await Promise.allSettled(...)`: every sentinel of the
\* active set is released, each rejection caught
strategyRelease(st, s) ==
  LET ids == st.activeSets[s]
  IN  [releaseEach(st, ids) EXCEPT !.sweep = [pc |-> "wait", strategy |-> s, ids |-> ids]]

\* strategy.release() after allSettled: the active set is cleared, the call returns
strategyReleaseReturns(st) ==
  [st EXCEPT !.activeSets[st.sweep.strategy] = {}, !.sweep.pc = "returned"]

----------------------------------------------------------------------------
(* WakeLock.release *)

\* the guard of release(): nothing to release, or a release is under way
releaseReturnsAtOnce(st) ==
  \/ st.activeSentinel = NoSentinel
  \/ released(st, st.activeSentinel)
  \/ st.isReleasing

\* release() from its guard to its first suspension: isReleasing is set and the
\* active sentinel's release() runs up to its own first await
releaseEnter(st) ==
  IF releaseReturnsAtOnce(st) THEN st
  ELSE
    LET id == st.activeSentinel
        s == st.sentinels[id].strategy
        s1 == [st EXCEPT !.isReleasing = TRUE]
    IN  IF st.sentinels[id].released \/ (s # Native /\ id \notin st.activeSets[s])
        THEN \* sentinel.release() returns without doing anything
             [s1 EXCEPT !.rel = [pc |-> "continue", sentinel |-> id, failed |-> FALSE]]
        ELSE IF s \in {Native, Audio}
        THEN \* await nativeSentinel.release() / await audio.context.close()
             [s1 EXCEPT !.rel = [pc |-> "sentinel", sentinel |-> id, failed |-> FALSE]]
        ELSE \* video, timer: releaseSentinel has no await
             [releaseFinally(s1, id) EXCEPT
                !.rel = [pc |-> "continue", sentinel |-> id, failed |-> FALSE]]

\* a release() whose finally block forgets the re-entrancy flag
releaseCleanupKeepsFlag(st) ==
  stop([st EXCEPT !.activeSentinel = NoSentinel, !.currentStrategy = NoStrategy])

\* the finally block of release(): the slots and the flag are cleared, the monitor stopped
releaseCleanup(st) ==
  stop([st EXCEPT !.activeSentinel = NoSentinel, !.currentStrategy = NoStrategy,
                  !.isReleasing = FALSE])

\* the awaited platform call of the sentinel's release settles, and the
\* sentinel's finally block runs
releaseSettles(st, ok) ==
  LET id == st.rel.sentinel
      s1 == IF st.sentinels[id].native = "held" /\ ok
            THEN nativeReleaseEvent([st EXCEPT !.sentinels[id].native = "released"], id)
            ELSE st
      s2 == releaseFinally(s1, id)
  IN  [s2 EXCEPT !.rel.pc = "continue", !.rel.failed = ~ok]

\* a release() whose catch block reports the error and rethrows it, as request()'s does
releaseContinueRethrows(st) ==
  LET threw == st.rel.failed \/ st.activeSentinel = NoSentinel
      s1 == IF threw
            THEN emit(st, "error", "UNKNOWN", "none")
            ELSE emit(st, "disabled", st.sentinels[st.activeSentinel].type, "manual-release")
  IN  [releaseCleanup(s1) EXCEPT !.rel.pc = "idle",
                                 !.lastCall = IF threw THEN "release-rejected" ELSE "release"]

\* release() after `await this.activeSentinel.release()`: the emit of the try
\* block, or the catch block, and then the finally block
releaseContinue(st) ==
  LET \* the try block throws when the sentinel's release rejected, and when
      \* this.activeSentinel is null by now: this.activeSentinel.type is a TypeError
      threw == st.rel.failed \/ st.activeSentinel = NoSentinel
      s1 == IF threw
            THEN emit(st, "error", "UNKNOWN", "none")       \* the catch block; it does not rethrow
            ELSE emit(st, "disabled", st.sentinels[st.activeSentinel].type, "manual-release")
  IN  [releaseCleanup(s1) EXCEPT !.rel.pc = "idle", !.lastCall = "release"]

----------------------------------------------------------------------------
(* PerformanceMonitor.start and the WakeLock's battery-change listener *)

\* a 'battery-change' listener that acts only below 15%
onBatteryChangeBelow(st, level, charging) ==
  LET s1 == emit(st, "battery-change", level, charging)
  IN  IF config.batteryOptimization /\ level < 15 /\ ~charging
      THEN releaseEnter(s1)
      ELSE s1

\* a 'battery-change' listener that releases at a low level whatever the option and
\* the charging state
onBatteryChangeAnyway(st, level, charging) ==
  LET s1 == emit(st, "battery-change", level, charging)
  IN  IF level <= 15 THEN releaseEnter(s1) ELSE s1

\* WakeLock.initializeEventListeners: the 'battery-change' listener
onBatteryChange(st, level, charging) ==
  LET s1 == emit(st, "battery-change", level, charging)
  IN  IF config.batteryOptimization /\ level <= 15 /\ ~charging
      THEN releaseEnter(s1)     \* handleLowBattery: this.release()
      ELSE s1

\* start() up to `await getBattery()`; it returns at once when already monitoring
startEnter(st, c) ==
  IF st.monitor.isMonitoring
  THEN [st EXCEPT !.req[c].pc = "try", !.req[c].i = 1, !.req[c].phase = 1]
  ELSE [st EXCEPT !.monitor.isMonitoring = TRUE, !.req[c].pc = "getBattery"]

\* start() after getBattery(): handlers set and the initial battery state emitted when
\* there is a battery source, then the sampling timer created
startResume(st, c) ==
  LET s1 == IF env.battery
            THEN onBatteryChange([st EXCEPT !.monitor.subscribed = TRUE],
                                 st.battery.level, st.battery.charging)
            ELSE st
      s2 == [s1 EXCEPT !.monitor.monitoringTimer = TRUE]
  IN  [s2 EXCEPT !.req[c].pc = "try", !.req[c].i = 1, !.req[c].phase = 1]

----------------------------------------------------------------------------
(* WakeLock.request and tryStrategies *)

Finished == {"idle", "resolved", "rejected"}

\* no request() and no release() is between its call and its return
Quiescent(st) ==
  /\ \A c \in Calls : st.req[c].pc \in Finished
  /\ st.rel.pc = "idle"
  /\ st.sweep.pc # "wait"

\* the request() calls between their call and their return
InFlight(st) == {c \in Calls : st.req[c].pc \notin Finished}

\* a continuation is queued as a microtask: it runs before any platform event,
\* timer or later call of the page is handled
MicrotasksPending(st) ==
  \/ \E c \in Calls : st.req[c].pc \in {"monitor", "try", "adopt"}
  \/ st.rel.pc = "continue"
  \/ st.sweep.pc = "wait" /\ st.sweep.ids \cap st.direct = {}

\* the call's record once it has returned
Returned(r, how, id, code) ==
  [IdleRequest EXCEPT !.pc = how, !.type = r.type, !.timeout = r.timeout, !.during = r.during,
                      !.afterDestroy = r.afterDestroy, !.i = r.i, !.sentinel = id,
                      !.error = code]

\* request()'s catch block: emit 'error' and rethrow
requestRejects(st, c, code) ==
  LET s1 == emit(st, "error", code, "none")
  IN  [s1 EXCEPT !.req[c] = Returned(st.req[c], "rejected", NoSentinel, code),
                 !.lastCall = "request"]

\* request() past its guard, up to its first suspension.
\* passive is "undefined", "true" or "false"; timeout is -1 for undefined
requestStart(st, c, type, passive, timeout, abortAt) ==
  LET isPassive == IF passive = "undefined" THEN config.passive ELSE passive = "true"
      ms == IF timeout = -1 THEN DefaultTimeout ELSE timeout
      r == [IdleRequest EXCEPT !.type = type, !.passive = isPassive, !.timeout = ms,
                               !.abortAt = abortAt, !.during = InFlight(st),
                               !.afterDestroy = st.destroyed]
  IN  IF isPassive
      THEN [st EXCEPT !.req[c] = [r EXCEPT !.pc = "permission"]]
      ELSE IF config.performanceMonitoring
      THEN [st EXCEPT !.req[c] = [r EXCEPT !.pc = "monitor"]]
      ELSE [st EXCEPT !.req[c] = [r EXCEPT !.pc = "try", !.i = 1, !.phase = 1]]

\* a request() without the guard on the active sentinel: it always acquires
requestEnterUnguarded(st, c, type, passive, timeout, abortAt) ==
  requestStart(st, c, type, passive, timeout, abortAt)

\* request() from its call: without window or document it throws NOT_SUPPORTED
\* before its try block; the active, unreleased sentinel is returned as it is
requestEnter(st, c, type, passive, timeout, abortAt) ==
  IF env.ssr
  THEN [st EXCEPT !.req[c] = Returned([IdleRequest EXCEPT !.type = type, !.during = InFlight(st),
                                                          !.afterDestroy = st.destroyed],
                                      "rejected", NoSentinel, "NOT_SUPPORTED"),
                  !.lastCall = "request"]
  ELSE IF st.activeSentinel # NoSentinel /\ ~released(st, st.activeSentinel)
  THEN [st EXCEPT !.req[c] = Returned([IdleRequest EXCEPT !.type = type, !.during = InFlight(st),
                                                          !.afterDestroy = st.destroyed],
                                      "resolved", st.activeSentinel, "none"),
                  !.lastCall = "request"]
  ELSE requestStart(st, c, type, passive, timeout, abortAt)

\* a passive check that never rejects
requestPermissionCheckedProceeds(st, c) ==
  LET can == canRequestWithoutPrompt(st, st.req[c].type)
  IN  IF config.performanceMonitoring
      THEN [can.st EXCEPT !.req[c].pc = "monitor"]
      ELSE [can.st EXCEPT !.req[c].pc = "try", !.req[c].i = 1, !.req[c].phase = 1]

\* after `await canRequestWithoutPrompt(type)`
requestPermissionChecked(st, c) ==
  LET can == canRequestWithoutPrompt(st, st.req[c].type)
  IN  IF ~can.value /\ isPassiveModeRecommended(can.st)
      THEN requestRejects(can.st, c, "PERMISSION_DENIED")
      ELSE IF config.performanceMonitoring
      THEN [can.st EXCEPT !.req[c].pc = "monitor"]
      ELSE [can.st EXCEPT !.req[c].pc = "try", !.req[c].i = 1, !.req[c].phase = 1]

\* tryStrategies' catch block for strategy i: the 'fallback' notification names
\* this.strategies[this.strategies.indexOf(strategy) + 1], when there is one
strategyFailed(st, c, code) ==
  LET s == strategies[st.req[c].i]
      next == indexOf(strategies, s) + 1
      s1 == IF next <= Len(strategies)
            THEN emit(st, "fallback", s, strategies[next])
            ELSE st
  IN  [s1 EXCEPT !.req[c].pc = "try", !.req[c].i = @ + 1, !.req[c].phase = 1,
                 !.req[c].error = code]

\* a tryStrategies that rethrows the last strategy's error instead of a final one
tryStrategiesThrowsLast(st, c) == requestRejects(st, c, st.req[c].error)

\* tryStrategies after its loop: the final error, which request()'s catch block
\* reports and rethrows
tryStrategiesThrows(st, c) == requestRejects(st, c, "STRATEGY_FAILED")

\* a tryStrategies that returns the sentinel without recording the strategy
strategyResolvedUnrecorded(st, c, id) ==
  IF st.req[c].phase = 1
  THEN [st EXCEPT !.req[c].pc = "try", !.req[c].phase = 2]
  ELSE [st EXCEPT !.req[c].pc = "adopt", !.req[c].sentinel = id]

\* a strategy.request() of strategy i resolved with sentinel id: the one made inside
\* measureStrategy is dropped and strategy.request() is called again in .then();
\* the second one is returned to request()
strategyResolved(st, c, id) ==
  IF st.req[c].phase = 1
  THEN [st EXCEPT !.req[c].pc = "try", !.req[c].phase = 2]
  ELSE [st EXCEPT !.currentStrategy = strategies[st.req[c].i],
                  !.req[c].pc = "adopt", !.req[c].sentinel = id]

\* a strategy.request that takes the 'system' kind like the 'screen' kind
strategyRequestAnyKind(st, c) ==
  IF strategies[st.req[c].i] = Timer
  THEN strategyResolved(createSentinel(st, Timer, st.req[c].type), c, Len(st.sentinels) + 1)
  ELSE [st EXCEPT !.req[c].pc = "wait"]

\* strategy.request(type, options) from its call to its first suspension
strategyRequest(st, c) ==
  LET s == strategies[st.req[c].i]
      type == st.req[c].type
  IN  IF type = "system" /\ s # Timer
      THEN strategyFailed(st, c, "NOT_SUPPORTED")
      ELSE IF s = Timer
      THEN strategyResolved(createSentinel(st, Timer, type), c, Len(st.sentinels) + 1)
      ELSE [st EXCEPT !.req[c].pc = "wait"]

\* the awaited platform acquisition of strategy i, raced against the timeout, settles
strategySettles(st, c, latency, result) ==
  LET s == strategies[st.req[c].i]
      setup == SetupSettles(s, latency, result)
      got == AwaitSetup(setup, st.req[c].timeout, st.req[c].abortAt)
      \* a media element that was attached and failed stays attached
      s1 == IF ~got.ok /\ ~got.abandoned /\ s = Video
            THEN [st EXCEPT !.orphans = @ \cup {Video}] ELSE st
      s2 == IF got.abandoned THEN [s1 EXCEPT !.abandoned = @ \cup {s}] ELSE s1
  IN  IF got.ok
      THEN strategyResolved(createSentinel(s2, s, st.req[c].type), c, Len(st.sentinels) + 1)
      ELSE strategyFailed(s2, c, StrategyErrorCode(s, got.error))

\* a request() that adopts the sentinel without setupSentinelListeners
requestAdoptsWithoutListener(st, c) ==
  LET id == st.req[c].sentinel
      s1 == [st EXCEPT !.activeSentinel = id]
      s3 == emit(s1, "enabled", st.req[c].type,
                 IF st.currentStrategy = NoStrategy THEN "unknown" ELSE st.currentStrategy)
  IN  [s3 EXCEPT !.req[c] = Returned(st.req[c], "resolved", id, "none"),
                 !.lastCall = "request"]

\* request() after `await this.tryStrategies(...)` resolved
requestAdopts(st, c) ==
  LET id == st.req[c].sentinel
      s1 == [st EXCEPT !.activeSentinel = id]
      s2 == addEventListener(s1, id, "onRelease")
      s3 == emit(s2, "enabled", st.req[c].type,
                 IF st.currentStrategy = NoStrategy THEN "unknown" ELSE st.currentStrategy)
  IN  [s3 EXCEPT !.req[c] = Returned(st.req[c], "resolved", id, "none"),
                 !.lastCall = "request"]

----------------------------------------------------------------------------
(* destroy() and the handlers of the platform's signals *)

\* a destroy() that does not release
destroyWithoutRelease(st) ==
  [stop(st) EXCEPT !.listening = FALSE, !.destroyed = TRUE]

\* a destroy() that leaves the monitor to the release
destroyKeepsMonitor(st) ==
  [releaseEnter(st) EXCEPT !.listening = FALSE, !.destroyed = TRUE]

\* destroy(): release() runs to its first suspension, then the monitor is stopped
\* and the subscribers of the WakeLock are removed
destroy(st) ==
  LET s1 == releaseEnter(st)
      s2 == stop(s1)
  IN  [s2 EXCEPT !.listening = FALSE, !.destroyed = TRUE]

\* a 'visibilitychange' handler that releases whatever the options say
handleVisibilityChangeAlways(st) ==
  LET s1 == emit(st, "visibility-change", st.hidden, "none")
  IN  IF st.hidden /\ st.activeSentinel # NoSentinel THEN releaseEnter(s1) ELSE s1

\* the 'visibilitychange' handler registered by initializeVisibilityHandling
handleVisibilityChange(st) ==
  LET s1 == emit(st, "visibility-change", st.hidden, "none")
  IN  IF st.hidden /\ st.activeSentinel # NoSentinel /\ config.batteryOptimization
      THEN releaseEnter(s1)
      ELSE s1

\* battery.onlevelchange / battery.onchargingchange as PerformanceMonitor set them:
\* the monitor emits 'battery-change', which the WakeLock's listener receives
onlevelchange(st) ==
  IF st.monitor.subscribed
  THEN onBatteryChange(st, st.battery.level, st.battery.charging)
  ELSE st

----------------------------------------------------------------------------
(* Actions *)

\* the options callers pass to request(): passive, timeout (-1: undefined) and the
\* time at which their abort signal fires (0: never)
RequestInputs ==
  { [type |-> "screen", passive |-> "undefined", timeout |-> -1, abortAt |-> 0],
    [type |-> "system", passive |-> "undefined", timeout |-> -1, abortAt |-> 0],
    [type |-> "screen", passive |-> "true", timeout |-> -1, abortAt |-> 0],
    [type |-> "screen", passive |-> "undefined", timeout |-> 100, abortAt |-> 0],
    [type |-> "screen", passive |-> "undefined", timeout |-> -1, abortAt |-> 200],
    [type |-> "screen", passive |-> "undefined", timeout |-> 0, abortAt |-> 200] }

\* the options of the overlapping calls explored
OverlappingInputs ==
  { [type |-> "screen", passive |-> "undefined", timeout |-> -1, abortAt |-> 0],
    [type |-> "screen", passive |-> "true", timeout |-> 100, abortAt |-> 0] }

\* the notifications observed are those since the latest call made while nothing was in flight
Observe(st) ==
  IF Quiescent(st)
  THEN [st EXCEPT !.events = <<>>, !.lastCall = "none", !.lastSignal = NoSignal,
                  !.sweep = NoSweep]
  ELSE st

\* a caller calls request(type, options); overlap: callers do not wait for the calls in flight
Request(c, overlap, inputs) ==
  /\ req[c].pc = "idle"
  /\ IF c = 1 THEN TRUE ELSE req[c - 1].pc # "idle"
  /\ IF overlap THEN TRUE ELSE Quiescent(Cur)
  /\ \E o \in inputs :
       Becomes(requestEnter(Observe(Cur), c, o.type, o.passive, o.timeout, o.abortAt))

RequestPermissionChecked(c) ==
  /\ req[c].pc = "permission"
  /\ Becomes(requestPermissionChecked(Cur, c))

MonitorStart(c) ==
  /\ req[c].pc = "monitor"
  /\ Becomes(startEnter(Cur, c))

MonitorStartResumes(c) ==
  /\ req[c].pc = "getBattery"
  /\ Becomes(startResume(Cur, c))

TryStrategy(c) ==
  /\ req[c].pc = "try"
  /\ req[c].i <= Len(strategies)
  /\ Len(sentinels) < MaxSentinels
  /\ Becomes(strategyRequest(Cur, c))

StrategySettles(c) ==
  /\ req[c].pc = "wait"
  /\ \E latency \in Latencies, result \in PlatformResults(strategies[req[c].i]) :
       Becomes(strategySettles(Cur, c, latency, result))

\* the same on a platform that settles every acquisition well within the timeout
StrategySettlesPromptly(c) ==
  /\ req[c].pc = "wait"
  /\ \E result \in PlatformResults(strategies[req[c].i]) :
       Becomes(strategySettles(Cur, c, 500, result))

\* tryStrategies' loop is over: it throws STRATEGY_FAILED, which request() reports and rethrows
AllStrategiesFailed(c) ==
  /\ req[c].pc = "try"
  /\ req[c].i > Len(strategies)
  /\ Becomes(tryStrategiesThrows(Cur, c))

RequestAdopts(c) ==
  /\ req[c].pc = "adopt"
  /\ Becomes(requestAdopts(Cur, c))

\* a caller calls release()
Release(overlap) ==
  /\ IF overlap THEN TRUE ELSE Quiescent(Cur)
  /\ LET st == Observe(Cur)
     IN  IF releaseReturnsAtOnce(st)
         THEN Becomes([st EXCEPT !.lastCall = "release-noop"])
         ELSE Becomes(releaseEnter(st))

ReleaseSettles ==
  /\ rel.pc = "sentinel"
  /\ \E ok \in (IF sentinels[rel.sentinel].strategy = Native THEN BOOLEAN ELSE {TRUE}) :
       Becomes(releaseSettles(Cur, ok))

ReleaseContinues ==
  /\ rel.pc = "continue"
  /\ Becomes(releaseContinue(Cur))

\* the platform revokes a native lock on its own
PlatformRevokes ==
  \E id \in 1..Len(sentinels) :
    /\ ~MicrotasksPending(Cur)
    /\ sentinels[id].native = "held"
    /\ Becomes(nativeReleaseEvent([Cur EXCEPT !.sentinels[id].native = "released"], id))

\* an acquisition its strategy gave up on settles: what it acquired is tracked by nothing
AbandonedSettles ==
  \E s \in abandoned, latency \in Latencies : \E result \in PlatformResults(s) :
    LET setup == SetupSettles(s, latency, result)
    IN  /\ ~MicrotasksPending(Cur)
        /\ Becomes([Cur EXCEPT !.abandoned = @ \ {s},
                                !.orphans = IF setup.ok \/ s = Video THEN @ \cup {s} ELSE @])

\* the options and the deployments explored together with the platform's signals
EventInputs == { [type |-> "screen", passive |-> "undefined", timeout |-> -1, abortAt |-> 0] }

EventDeployments ==
  { Deployment(<<Native>>, StrategyNames, TRUE, TRUE, FALSE, "null", "granted", FALSE, TRUE, 80),
    Deployment(<<Timer>>, StrategyNames, FALSE, TRUE, FALSE, "null", "granted", FALSE, TRUE, 80),
    Deployment(<<Video>>, StrategyNames, TRUE, FALSE, FALSE, "null", "granted", FALSE, FALSE,
               80) }

InitEvents == InitOf(EventDeployments)

\* the battery levels (percent) the platform reports
BatteryLevels == {15, 16}

\* a signal of the platform, or a destroy() call, is about to be handled: the
\* sentinel that is active then is remembered
Signalled(st, kind) ==
  LET s1 == Observe(st)
  IN  [s1 EXCEPT !.lastSignal = [kind |-> kind,
                                 sentinel |-> IF getStatus(s1).isActive THEN s1.activeSentinel
                                              ELSE NoSentinel],
                 !.signals = @ + 1]

\* the platform reports a new battery level or charging state
BatteryChanges ==
  /\ signals < MaxSignals
  /\ ~MicrotasksPending(Cur)
  /\ env.battery
  /\ \E level \in BatteryLevels, charging \in BOOLEAN :
       /\ [level |-> level, charging |-> charging] # battery
       /\ Becomes(onlevelchange([Signalled(Cur, "battery") EXCEPT
                                   !.battery = [level |-> level, charging |-> charging]]))

\* the page becomes hidden or visible
VisibilityChanges ==
  /\ signals < MaxSignals
  /\ ~MicrotasksPending(Cur)
  /\ ~env.ssr
  /\ LET st == handleVisibilityChange([Signalled(Cur, "visibility") EXCEPT
                                          !.hidden = ~hidden])
     IN  Becomes(timersVisibilityChange(st, st.activeSets[Timer]))

\* 'beforeunload' or 'unload': the cleanup closure calls destroy()
Unload ==
  /\ signals < MaxSignals
  /\ ~MicrotasksPending(Cur)
  /\ ~env.ssr
  /\ Becomes(destroy(Signalled(Cur, "unload")))

\* a caller calls destroy()
Destroy ==
  /\ signals < MaxSignals
  /\ ~MicrotasksPending(Cur)
  /\ Becomes(destroy(Signalled(Cur, "destroy")))

Next ==
  \/ \E c \in Calls : Request(c, FALSE, RequestInputs)
  \/ \E c \in Calls : RequestPermissionChecked(c)
  \/ \E c \in Calls : MonitorStart(c)
  \/ \E c \in Calls : MonitorStartResumes(c)
  \/ \E c \in Calls : TryStrategy(c)
  \/ \E c \in Calls : StrategySettles(c)
  \/ \E c \in Calls : AllStrategiesFailed(c)
  \/ \E c \in Calls : RequestAdopts(c)
  \/ Release(FALSE)
  \/ ReleaseSettles
  \/ ReleaseContinues
  \/ PlatformRevokes
  \/ AbandonedSettles

Spec == Init /\ [][Next]_vars

\* callers that do not wait for their earlier calls to return
NextOverlapping ==
  \/ \E c \in Calls : Request(c, TRUE, OverlappingInputs)
  \/ \E c \in Calls : RequestPermissionChecked(c)
  \/ \E c \in Calls : MonitorStart(c)
  \/ \E c \in Calls : MonitorStartResumes(c)
  \/ \E c \in Calls : TryStrategy(c)
  \/ \E c \in Calls : StrategySettles(c)
  \/ \E c \in Calls : AllStrategiesFailed(c)
  \/ \E c \in Calls : RequestAdopts(c)
  \/ Release(TRUE)
  \/ ReleaseSettles
  \/ ReleaseContinues
  \/ PlatformRevokes
  \/ AbandonedSettles

SpecOverlapping == InitOverlapping /\ [][NextOverlapping]_vars

\* callers that wait for their calls to return, and the signals of the platform
NextEvents ==
  \/ \E c \in Calls : Request(c, FALSE, EventInputs)
  \/ \E c \in Calls : MonitorStart(c)
  \/ \E c \in Calls : MonitorStartResumes(c)
  \/ \E c \in Calls : TryStrategy(c)
  \/ \E c \in Calls : StrategySettlesPromptly(c)
  \/ \E c \in Calls : AllStrategiesFailed(c)
  \/ \E c \in Calls : RequestAdopts(c)
  \/ Release(FALSE)
  \/ ReleaseSettles
  \/ ReleaseContinues
  \/ PlatformRevokes
  \/ BatteryChanges
  \/ VisibilityChanges
  \/ Unload
  \/ Destroy

SpecEvents == InitEvents /\ [][NextEvents]_vars

\* the sentinels request() has returned to its callers
Held == {req[c].sentinel : c \in {d \in Calls : req[d].pc = "resolved"}}

\* the holder of a sentinel registers a release listener on it
SentinelSubscribe ==
  \E id \in Held :
    /\ ~MicrotasksPending(Cur)
    /\ "caller" \notin sentinels[id].listeners
    /\ Becomes(subscribe(Cur, id))

\* the holder of a sentinel calls its release()
SentinelRelease ==
  \E id \in Held :
    /\ ~MicrotasksPending(Cur)
    /\ id \notin direct
    /\ Becomes(sentinelRelease(Cur, id))

\* a caller calls release() on one of the strategies of the list
StrategyRelease ==
  /\ Quiescent(Cur)
  /\ ~MicrotasksPending(Cur)
  /\ \E k \in 1..Len(strategies) : Becomes(strategyRelease(Observe(Cur), strategies[k]))

StrategyReleaseReturns ==
  /\ sweep.pc = "wait"
  /\ sweep.ids \cap direct = {}
  /\ Becomes(strategyReleaseReturns(Cur))

SentinelReleaseSettles ==
  \E id \in direct :
    /\ ~MicrotasksPending(Cur)
    /\ \E ok \in (IF sentinels[id].strategy = Native THEN BOOLEAN ELSE {TRUE}) :
         Becomes(sentinelReleaseSettles(Cur, id, ok))

\* the deployments explored with callers that use the sentinels themselves
SentinelDeployments ==
  { Deployment(<<Native, Timer>>, StrategyNames, FALSE, FALSE, FALSE, "null", "granted", FALSE,
               FALSE, 80),
    Deployment(<<Video, Audio>>, StrategyNames, FALSE, FALSE, FALSE, "null", "granted", FALSE,
               FALSE, 80) }

InitSentinels == InitOf(SentinelDeployments)

NextSentinels ==
  \/ \E c \in Calls : Request(c, FALSE, EventInputs)
  \/ \E c \in Calls : TryStrategy(c)
  \/ \E c \in Calls : StrategySettlesPromptly(c)
  \/ \E c \in Calls : AllStrategiesFailed(c)
  \/ \E c \in Calls : RequestAdopts(c)
  \/ Release(FALSE)
  \/ ReleaseSettles
  \/ ReleaseContinues
  \/ PlatformRevokes
  \/ SentinelSubscribe
  \/ SentinelRelease
  \/ SentinelReleaseSettles

SpecSentinels == InitSentinels /\ [][NextSentinels]_vars

\* callers that also release whole strategies
NextStrategies ==
  \/ \E c \in Calls : Request(c, FALSE, EventInputs)
  \/ \E c \in Calls : TryStrategy(c)
  \/ \E c \in Calls : StrategySettlesPromptly(c)
  \/ \E c \in Calls : AllStrategiesFailed(c)
  \/ \E c \in Calls : RequestAdopts(c)
  \/ PlatformRevokes
  \/ SentinelRelease
  \/ SentinelReleaseSettles
  \/ StrategyRelease
  \/ StrategyReleaseReturns

SpecStrategies == InitSentinels /\ [][NextStrategies]_vars

\* the platform reports an error of the worker of a timer sentinel
WorkerErrors ==
  \E id \in 1..Len(sentinels) :
    /\ ~MicrotasksPending(Cur)
    /\ sentinels[id].timer.worker = "ticking"
    /\ sentinels[id].timer.errors < MaxWorkerErrors
    /\ Becomes([Cur EXCEPT !.sentinels[id].timer = workerOnError(@)])

\* a main-thread interval of a released timer sentinel fires
IntervalTicks ==
  \E id \in 1..Len(sentinels) : \E x \in sentinels[id].timer.intervals :
    /\ ~MicrotasksPending(Cur)
    /\ x.ms > 0
    /\ sentinels[id].released
    /\ Becomes([Cur EXCEPT !.sentinels[id].timer =
                             mainThreadTick(@, x.id, sentinels[id].released)])

\* the same deployment on a platform with or without Worker, mobile or not
OnPlatform(d, worker, mobile) == [d EXCEPT !.env.worker = worker, !.env.mobile = mobile]

\* the deployments explored for the timer strategy
TimerDeployments ==
  { OnPlatform(Deployment(<<Timer>>, StrategyNames, FALSE, FALSE, FALSE, "null", "granted",
                          FALSE, FALSE, 80), worker, mobile) :
      worker \in BOOLEAN, mobile \in BOOLEAN }

InitTimers == InitOf(TimerDeployments)

NextTimers ==
  \/ \E c \in Calls : Request(c, FALSE, EventInputs)
  \/ \E c \in Calls : TryStrategy(c)
  \/ \E c \in Calls : RequestAdopts(c)
  \/ SentinelRelease
  \/ VisibilityChanges
  \/ WorkerErrors
  \/ IntervalTicks

SpecTimers == InitTimers /\ [][NextTimers]_vars

----------------------------------------------------------------------------
(* EventEmitter, for one event type *)

\* emit() calls made by the callers
MaxEmits == 3

inList(list, l) == \E k \in 1..Len(list) : list[k] = l

RECURSIVE dispatchEvent(_)

\* listener(event), called from the loop over the regular or over the once listeners
invokeListener(em, l, fromOnce) ==
  LET e1 == IF fromOnce THEN [em EXCEPT !.onceInvoked[l] = @ + 1] ELSE em
  IN  IF l = "reentrant" /\ ~em.reemitted
      THEN dispatchEvent([e1 EXCEPT !.reemitted = TRUE])
      ELSE e1

\* for (const listener of set) listener(event): the set in insertion order
RECURSIVE invokeEach(_, _, _)
invokeEach(em, list, fromOnce) ==
  IF list = <<>> THEN em
  ELSE invokeEach(invokeListener(em, Head(list), fromOnce), Tail(list), fromOnce)

\* dispatchEvent(type, event): both sets are read from the maps first; the regular
\* listeners run, then the once listeners of the set read at the start, then the
\* type's entry of onceListeners is deleted
dispatchEvent(em) ==
  LET regularListeners == em.listeners
      onceListeners == em.onceListeners
      e1 == invokeEach(em, regularListeners, FALSE)
      e2 == invokeEach(e1, onceListeners, TRUE)
  IN  IF onceListeners # <<>> THEN [e2 EXCEPT !.onceListeners = <<>>] ELSE e2

\* on(type, listener): Set.add, which keeps a listener already in the set where it is
on(em, l) ==
  IF inList(em.listeners, l) THEN em ELSE [em EXCEPT !.listeners = Append(@, l)]

\* once(type, listener)
once(em, l) ==
  IF inList(em.onceListeners, l) THEN em
  ELSE [em EXCEPT !.onceListeners = Append(@, l), !.onceInvoked[l] = 0]

\* a caller registers a listener with on()
EmitterOn ==
  \E l \in Listeners :
    /\ ~inList(emitter.listeners, l)
    /\ Becomes([Cur EXCEPT !.emitter = on(@, l)])

\* a caller registers a listener with once()
EmitterOnce ==
  \E l \in Listeners :
    /\ ~inList(emitter.onceListeners, l)
    /\ Becomes([Cur EXCEPT !.emitter = once(@, l)])

\* a caller calls emit(type, event); whether the reentrant listener emits again
\* during this call, if it has emitted during an earlier one, is the listener's choice
EmitterEmit ==
  /\ emitter.emits < MaxEmits
  /\ \E fresh \in BOOLEAN :
       Becomes([Cur EXCEPT !.emitter =
                  [dispatchEvent([@ EXCEPT !.reemitted = @ /\ ~fresh]) EXCEPT
                     !.emits = @ + 1]])

NextEmitter ==
  \/ EmitterOn
  \/ EmitterOnce
  \/ EmitterEmit

InitEmitter ==
  InitOf({Deployment(<<>>, StrategyNames, FALSE, FALSE, FALSE, "null", "null", FALSE, FALSE, 80)})

SpecEmitter == InitEmitter /\ [][NextEmitter]_vars

\* expiry periods the clock may run through, and milliseconds it may be off a whole
\* number of them
MaxExpiries == 1
MaxDrift == 1

\* the values of Date.now() explored
Times ==
  {InitialTime + k * cacheExpiryTime + j : k \in 0..MaxExpiries, j \in 0..MaxDrift}

\* what navigator.permissions reports for this kind now: 'wake-lock', else for the
\* screen kind 'screen-wake-lock'; "null" when it reports no state, when the query
\* rejects or when there is no Permissions API
platformPermission(type) ==
  IF env.wakeLockPermission # "null" THEN env.wakeLockPermission
  ELSE IF type = "screen" THEN env.screenPermission
  ELSE "null"

\* what a call of the permission manager finds: the cache entry of the kind and its
\* age (-1: no entry), and the platform's report
Found(st, op, type) ==
  [op |-> op, type |-> type, entry |-> st.permissionCache[type],
   age |-> IF st.cacheTimestamps[type] = 0 THEN -1 ELSE now - st.cacheTimestamps[type],
   platform |-> platformPermission(type), value |-> "null", at |-> now]

\* time passes
ClockAdvances ==
  /\ \E t \in Times : t > now /\ now' = t
  /\ UNCHANGED <<strategies, config, env>>
  /\ Assigns(Cur)

\* the user or the browser changes the state of the 'wake-lock' permission
PermissionChanges ==
  /\ \E p \in {"null", "granted", "denied", "prompt"} :
       /\ p # env.wakeLockPermission
       /\ env' = [env EXCEPT !.wakeLockPermission = p]
  /\ UNCHANGED <<strategies, config, now>>
  /\ Assigns(Cur)

\* the kinds callers pass to the permission manager: the default of checkPermissions
CheckedTypes == {"screen"}

\* a caller calls WakeLock.checkPermissions(type)
CheckPermissions ==
  /\ ~env.ssr
  /\ \E type \in CheckedTypes :
    LET r == checkWakeLockPermission(Cur, type, config.passive)
    IN  Becomes([r.st EXCEPT !.lastCheck =
                   [Found(Cur, "checkPermissions", type) EXCEPT !.value = r.value]])

\* a caller calls PermissionManager.canRequestWithoutPrompt(type)
CanRequestWithoutPrompt ==
  /\ ~env.ssr
  /\ \E type \in CheckedTypes :
    LET r == canRequestWithoutPrompt(Cur, type)
    IN  Becomes([r.st EXCEPT !.lastCheck =
                   [Found(Cur, "canRequestWithoutPrompt", type) EXCEPT
                      !.value = IF r.value THEN "true" ELSE "false"]])

\* the deployments explored for the permission manager: passive or not, with or
\* without a 'screen-wake-lock' permission
PermissionDeployments ==
  { Deployment(<<Timer>>, StrategyNames, FALSE, FALSE, passive, "null", screenPermission, FALSE,
               FALSE, 80) :
      passive \in BOOLEAN, screenPermission \in {"null", "prompt"} }

InitPermissions == InitOf(PermissionDeployments)

NextPermissions ==
  \/ ClockAdvances
  \/ PermissionChanges
  \/ CheckPermissions
  \/ CanRequestWithoutPrompt

SpecPermissions == InitPermissions /\ [][NextPermissions]_vars

\* the deployments explored with destroy()
DestroyDeployments ==
  { Deployment(<<Native>>, StrategyNames, TRUE, TRUE, FALSE, "null", "granted", FALSE, TRUE, 80),
    Deployment(<<Audio, Timer>>, StrategyNames, FALSE, TRUE, FALSE, "null", "granted", FALSE,
               FALSE, 80) }

InitDestroy == InitOf(DestroyDeployments)

\* the platform revokes the lock of the active sentinel
ActiveRevoked ==
  /\ activeSentinel # NoSentinel
  /\ PlatformRevokes
  /\ sentinels'[activeSentinel].native # sentinels[activeSentinel].native

\* callers that wait for their calls to return, and that call destroy()
NextDestroy ==
  \/ \E c \in Calls : Request(c, FALSE, EventInputs)
  \/ \E c \in Calls : MonitorStart(c)
  \/ \E c \in Calls : MonitorStartResumes(c)
  \/ \E c \in Calls : TryStrategy(c)
  \/ \E c \in Calls : StrategySettlesPromptly(c)
  \/ \E c \in Calls : AllStrategiesFailed(c)
  \/ \E c \in Calls : RequestAdopts(c)
  \/ Release(FALSE)
  \/ ReleaseSettles
  \/ ReleaseContinues
  \/ ActiveRevoked
  \/ Destroy

\* the platform settles every release it was asked for, and a continuation that is
\* queued runs
SpecDestroy ==
  /\ InitDestroy /\ [][NextDestroy]_vars
  /\ WF_vars(ReleaseSettles) /\ WF_vars(ReleaseContinues)

----------------------------------------------------------------------------
(* Properties.  In Spec a caller waits for its calls to return, so the log   *)
(* `events` holds the notifications of the latest call and lastCall tells    *)
(* how it returned, until the next call begins.                              *)

\* the notifications of one type in the log, in the order they were emitted
Emitted(type) == SelectSeq(events, LAMBDA e : e.type = type)

\* the log holds this notification
Notified(type, a, b) == \E k \in 1..Len(events) : events[k] = [type |-> type, a |-> a, b |-> b]

\* the latest request() call made (0: none yet)
Latest ==
  IF \E c \in Calls : req[c].pc # "idle"
  THEN CHOOSE c \in Calls : req[c].pc # "idle" /\ \A d \in Calls : d > c => req[d].pc = "idle"
  ELSE 0

\* the state a release() that did nothing must leave alone
programState ==
  <<activeSentinel, currentStrategy, isReleasing, sentinels, activeSets, monitor, req, rel,
    abandoned, orphans, permissionCache, cacheTimestamps>>

\* C1: for either kind, a request() made while an active, unreleased sentinel is held
\* returns that very sentinel, starts no acquisition with any strategy (no sentinel is
\* created, none is abandoned) and emits no 'enabled' and no 'fallback' notification.
C1_RequestReturnsActiveSentinel ==
  [][\A c \in Calls :
       (req[c].pc = "idle" /\ req'[c].pc # "idle" /\ getStatus(Cur).isActive)
         => /\ req'[c].pc = "resolved"
            /\ req'[c].sentinel = activeSentinel
            /\ activeSentinel' = activeSentinel
            /\ currentStrategy' = currentStrategy
            /\ sentinels' = sentinels
            /\ activeSets' = activeSets
            /\ abandoned' = abandoned
            /\ \A k \in 1..Len(events') : events'[k].type \notin {"enabled", "fallback"}]_vars

\* a second request, of the other kind, has returned the sentinel the first one acquired
C1_SecondRequestReturned ==
  \E c \in Calls :
    /\ c > 1
    /\ req[c].pc = "resolved" /\ req[c].type = "system" /\ req[c].i = 0
    /\ req[c - 1].pc = "resolved" /\ req[c - 1].type = "screen" /\ req[c - 1].i > 0
    /\ req[c].sentinel = req[c - 1].sentinel
    /\ activeSentinel = req[c].sentinel
    /\ ~released(Cur, activeSentinel)
    /\ lastCall = "request"
    /\ events = <<>>

\* C2: a request() called while an earlier request() of the instance is in flight
\* starts no acquisition of its own, and the two calls resolve to the same sentinel.
C2_OverlappingRequestsShareSentinel ==
  \A c, d \in Calls :
    (d \in req[c].during /\ req[c].pc = "resolved" /\ req[d].pc = "resolved")
      => /\ req[c].sentinel = req[d].sentinel
         /\ req[c].i = 0

\* C3: a request() whose first k strategies fail and whose strategy k+1 succeeds emits
\* exactly k 'fallback' notifications, the j-th from strategy j to strategy j+1, and
\* after them exactly one 'enabled' naming strategy k+1; when all n strategies fail it
\* emits exactly n-1 'fallback' notifications and no 'enabled'.
C3_FallbackChain ==
  \A c \in Calls :
    (c = Latest /\ lastCall = "request" /\ req[c].i > 0 /\ Len(strategies) > 0)
      => LET F == Emitted("fallback")
             E == Emitted("enabled")
             k == req[c].i - 1
         IN  IF req[c].pc = "resolved"
             THEN /\ Len(F) = k
                  /\ \A j \in 1..k : F[j].a = strategies[j] /\ F[j].b = strategies[j + 1]
                  /\ Len(E) = 1
                  /\ E[1].b = strategies[k + 1]
                  /\ \A x, y \in 1..Len(events) :
                       (events[x].type = "fallback" /\ events[y].type = "enabled") => x < y
             ELSE /\ Len(F) = Len(strategies) - 1
                  /\ Len(E) = 0

\* C4: when every strategy of the list has failed, or the list is empty, request()
\* rejects with STRATEGY_FAILED and the instance is not active when it has returned;
\* with an empty list isSupported() is false.
C4_AllFailRejectsStrategyFailed ==
  /\ strategies = <<>> => ~isSupported
  /\ \A c \in Calls :
       (req[c].pc \in {"resolved", "rejected"} /\ req[c].i > Len(strategies))
         => /\ req[c].pc = "rejected"
            /\ req[c].error = "STRATEGY_FAILED"
            /\ (c = Latest /\ lastCall = "request") => ~getStatus(Cur).isActive

\* a request has rejected after each of two or more strategies failed
C4_EveryStrategyFailed ==
  \E c \in Calls :
    /\ c = Latest /\ lastCall = "request"
    /\ Len(strategies) >= 2
    /\ req[c].pc = "rejected" /\ req[c].i = Len(strategies) + 1
    /\ req[c].error = "STRATEGY_FAILED"
    /\ Len(Emitted("fallback")) >= 1
    /\ ~getStatus(Cur).isActive

\* C5: when a release() that found an active sentinel has returned, that sentinel is
\* released and the instance is not active, so that the next release() returns at its
\* guard; and a release() that returns at its guard changes no state and emits nothing.
C5_ReleasedThenNoOp ==
  /\ [](lastCall = "release"
          => /\ released(Cur, rel.sentinel)
             /\ ~getStatus(Cur).isActive
             /\ releaseReturnsAtOnce(Cur))
  /\ [][(lastCall # "release-noop" /\ lastCall' = "release-noop")
          => (UNCHANGED programState /\ events' = <<>>)]_vars

\* a release() has returned at its guard after an earlier release() released the sentinel
C5_SecondReleaseDidNothing ==
  /\ lastCall = "release-noop"
  /\ rel.sentinel # NoSentinel
  /\ released(Cur, rel.sentinel)
  /\ activeSentinel = NoSentinel
  /\ events = <<>>

\* C6: no release() rejects; when the active sentinel's own release failed, release()
\* returned normally and the failure is in the log as one 'error' notification.
C6_ReleaseNeverRejects ==
  /\ lastCall # "release-rejected"
  /\ (lastCall = "release" /\ rel.failed) => Len(Emitted("error")) = 1

\* a release() has returned after the platform failed to release the native lock
C6_FailedReleaseReturned ==
  /\ lastCall = "release"
  /\ rel.failed
  /\ sentinels[rel.sentinel].strategy = Native
  /\ Len(Emitted("error")) = 1

\* C7: a release() called by a caller, whose sentinel release succeeded, has emitted
\* 'disabled' with the reason 'manual-release' and no 'error'.
C7_ManualReleaseReason ==
  (lastCall = "release" /\ ~rel.failed)
    => /\ Notified("disabled", sentinels[rel.sentinel].type, "manual-release")
       /\ Emitted("error") = <<>>

\* C8: a release() that found an active sentinel has emitted 'disabled' carrying the
\* sentinel's kind and the reason 'automatic-release'.
C8_ReleaseEmitsAutomaticRelease ==
  lastCall = "release"
    => Notified("disabled", sentinels[rel.sentinel].type, "automatic-release")

\* a release() of a timer sentinel has returned with the notification in the log
C8_TimerSentinelReleased ==
  /\ lastCall = "release"
  /\ ~rel.failed
  /\ sentinels[rel.sentinel].strategy = Timer
  /\ Notified("disabled", sentinels[rel.sentinel].type, "automatic-release")

\* C9: when a release() that found an active sentinel has returned, whether the
\* sentinel's release succeeded or failed, both slots are empty (getStatus: not active,
\* no type, no strategy), isReleasing is false and the monitor is stopped.
C9_ReleaseLeavesNothing ==
  lastCall = "release"
    => /\ activeSentinel = NoSentinel
       /\ currentStrategy = NoStrategy
       /\ getStatus(Cur) = [isActive |-> FALSE, type |-> "null", strategy |-> NoStrategy]
       /\ ~isReleasing
       /\ monitor = StoppedMonitor

\* a release() whose sentinel release failed has returned, on an instance that monitors
C9_FailedReleaseCleanedUp ==
  /\ lastCall = "release"
  /\ rel.failed
  /\ config.performanceMonitoring
  /\ activeSentinel = NoSentinel
  /\ ~isReleasing
  /\ monitor = StoppedMonitor

\* C10: a request() whose timeout is shorter than every acquisition latency, on a list
\* of strategies that all wait for the platform, rejects with the code TIMEOUT, and
\* nothing acquired for it stays held: no unreleased sentinel, no untracked resource.
C10_ShortTimeoutRejectsTimeout ==
  \A c \in Calls :
    (/\ req[c].pc \in {"resolved", "rejected"}
     /\ req[c].i > 0
     /\ \A latency \in Latencies : req[c].timeout > 0 /\ req[c].timeout < latency
     /\ strategies # <<>>
     /\ \A j \in 1..Len(strategies) : strategies[j] # Timer)
      => /\ req[c].pc = "rejected"
         /\ req[c].error = "TIMEOUT"
         /\ orphans = {}
         /\ \A id \in 1..Len(sentinels) : released(Cur, id)

\* C16: when a passive request() has checked the permission, the check says that a
\* prompt would be needed and passive mode is recommended, the call rejects with
\* PERMISSION_DENIED in that step: no strategy has been or is asked (its index is still
\* 0, no sentinel is created, nothing is abandoned), the monitor is as it was and the
\* active sentinel is not set.
C16_PassivePromptRejects ==
  [][\A c \in Calls :
       (/\ req[c].pc = "permission" /\ req'[c].pc # "permission"
        /\ req[c].passive
        /\ ~canRequestWithoutPrompt(Cur, req[c].type).value
        /\ isPassiveModeRecommended(Cur))
         => /\ req'[c].pc = "rejected"
            /\ req'[c].error = "PERMISSION_DENIED"
            /\ req'[c].i = 0
            /\ sentinels' = sentinels
            /\ activeSets' = activeSets
            /\ abandoned' = abandoned
            /\ monitor' = monitor
            /\ activeSentinel' = activeSentinel
            /\ currentStrategy' = currentStrategy]_vars

\* a first, passive request was rejected with PERMISSION_DENIED where monitoring is
\* enabled: the monitor was never started and no sentinel exists
C16_PassiveRequestRejected ==
  /\ lastCall = "request" /\ Latest = 1
  /\ req[1].pc = "rejected" /\ req[1].error = "PERMISSION_DENIED" /\ req[1].i = 0
  /\ config.performanceMonitoring
  /\ monitor = StoppedMonitor
  /\ sentinels = <<>>
  /\ activeSentinel = NoSentinel
  /\ events = <<[type |-> "error", a |-> "PERMISSION_DENIED", b |-> "none"]>>

\* the latest request() has returned by rejecting, and nothing was called since
LatestRejected(c) == c = Latest /\ lastCall = "request" /\ req[c].pc = "rejected"

\* C17: a request() that rejects has emitted exactly one 'error' notification, which
\* carries the code it rejects with, and it rejects only after every strategy of the
\* list has failed (the loop ran past the last one) or on the passive-mode policy
\* before any strategy was tried.
C17_RejectionEmitsOneError ==
  \A c \in Calls :
    LatestRejected(c)
      => /\ Emitted("error") = <<[type |-> "error", a |-> req[c].error, b |-> "none"]>>
         /\ \/ req[c].i = Len(strategies) + 1 /\ req[c].error = "STRATEGY_FAILED"
            \/ req[c].i = 0 /\ req[c].error = "PERMISSION_DENIED"

\* C18: 'enabled' is emitted only in the step in which a request() adopts the sentinel
\* its strategy has returned, once per such step; it carries the kind asked for and the
\* name of the strategy that created the sentinel, and getStatus() then reports
\* isActive true with that strategy; the log of a request() that acquired a sentinel
\* holds exactly one 'enabled'.
C18_OneEnabledAfterAcquisition ==
  /\ [][\A c \in Calls :
          (req[c].pc = "adopt" /\ req'[c].pc # "adopt")
            => /\ events' = Append(events, [type |-> "enabled", a |-> req[c].type,
                                            b |-> strategies[req[c].i]])
               /\ req'[c].pc = "resolved"
               /\ sentinels'[req'[c].sentinel].strategy = strategies[req[c].i]
               /\ sentinels'[req'[c].sentinel].type = req[c].type
               /\ activeSentinel' = req'[c].sentinel
               /\ ~sentinels'[activeSentinel'].released
               /\ sentinels'[activeSentinel'].native # "released"
               /\ currentStrategy' = strategies[req[c].i]]_vars
  /\ [][Len(SelectSeq(events', LAMBDA e : e.type = "enabled")) > Len(Emitted("enabled"))
          => \E c \in Calls : req[c].pc = "adopt" /\ req'[c].pc = "resolved"]_vars
  /\ [](\A c \in Calls :
          (c = Latest /\ lastCall = "request" /\ req[c].pc = "resolved" /\ req[c].i >= 1)
            => Emitted("enabled") = <<[type |-> "enabled", a |-> req[c].type,
                                       b |-> strategies[req[c].i]]>>)

\* a request() has acquired a sentinel with the second strategy of the list after the
\* first one failed
C18_EnabledAfterFallback ==
  \E c \in Calls :
    /\ c = Latest /\ lastCall = "request"
    /\ req[c].pc = "resolved" /\ req[c].i = 2
    /\ Emitted("enabled") = <<[type |-> "enabled", a |-> req[c].type, b |-> strategies[2]]>>
    /\ Len(Emitted("fallback")) = 1
    /\ getStatus(Cur).isActive
    /\ getStatus(Cur).strategy = strategies[2]

----------------------------------------------------------------------------
(* Properties of the platform's signals, in SpecEvents.  lastSignal names the *)
(* latest signal handled since the latest call and the sentinel that was      *)
(* active when it arrived.                                                    *)

\* the latest signal was of this kind and found a sentinel active
SignalFoundActive(kind) == lastSignal.kind = kind /\ lastSignal.sentinel # NoSentinel

\* the 'disabled' notifications in the log are exactly one, with this reason, for the
\* kind of sentinel id
OneDisabled(id, reason) ==
  Emitted("disabled") = <<[type |-> "disabled", a |-> sentinels[id].type, b |-> reason]>>

\* the battery-change notification of the battery's state is in the log, the state is
\* low and battery optimization is on
LowBatteryNotified ==
  /\ config.batteryOptimization
  /\ battery.level <= 15 /\ ~battery.charging
  /\ Notified("battery-change", battery.level, battery.charging)

\* C11: with batteryOptimization on and a sentinel active, a battery-change at 15% or
\* less while not charging starts a release of the sentinel; once that release is
\* over the sentinel is released, the log holds exactly one 'disabled', whose reason
\* is 'automatic-release', and getStatus().isActive is false.
C11_LowBatteryReleases ==
  (SignalFoundActive("battery") /\ LowBatteryNotified)
    => /\ Len(Emitted("disabled")) <= 1
       /\ \/ rel.pc # "idle"
          \/ /\ released(Cur, lastSignal.sentinel)
             /\ OneDisabled(lastSignal.sentinel, "automatic-release")
             /\ ~getStatus(Cur).isActive

\* the battery fell to 15% with a sentinel active, and the release that started is over
C11_LowBatteryReleased ==
  /\ SignalFoundActive("battery") /\ LowBatteryNotified
  /\ battery.level = 15
  /\ rel.pc = "idle" /\ rel.sentinel = lastSignal.sentinel
  /\ released(Cur, lastSignal.sentinel)
  /\ OneDisabled(lastSignal.sentinel, "automatic-release")
  /\ ~getStatus(Cur).isActive

\* the sentinels as their holders see them, the timer strategy's bookkeeping aside
WithoutTimers(list) == [id \in DOMAIN list |-> [list[id] EXCEPT !.timer = NoTimer]]

\* C12: when the page becomes hidden while a sentinel is active, 'visibility-change'
\* with hidden = true is emitted; with batteryOptimization on a release of the sentinel
\* starts, and once it is over the sentinel is released and isActive is false; with
\* batteryOptimization off the handler leaves the sentinel, the release state and the
\* monitor as they were.
C12_HiddenReleasesIfOptimizing ==
  /\ []((SignalFoundActive("visibility") /\ hidden)
         => /\ Notified("visibility-change", TRUE, "none")
            /\ config.batteryOptimization
                 => \/ rel.pc # "idle"
                    \/ /\ released(Cur, lastSignal.sentinel)
                       /\ ~getStatus(Cur).isActive)
  /\ [][(/\ signals' # signals
          /\ lastSignal'.kind = "visibility" /\ lastSignal'.sentinel # NoSentinel
          /\ hidden'
          /\ ~config.batteryOptimization)
         => /\ activeSentinel' = lastSignal'.sentinel
            /\ activeSentinel' = activeSentinel
            /\ WithoutTimers(sentinels') = WithoutTimers(sentinels)
            /\ activeSets' = activeSets
            /\ isReleasing' = isReleasing
            /\ rel' = rel
            /\ monitor' = monitor]_vars

\* the page became hidden with a sentinel active and batteryOptimization on, and the
\* release that started is over
C12_HiddenReleased ==
  /\ SignalFoundActive("visibility") /\ hidden
  /\ config.batteryOptimization
  /\ Notified("visibility-change", TRUE, "none")
  /\ rel.pc = "idle" /\ rel.sentinel = lastSignal.sentinel
  /\ released(Cur, lastSignal.sentinel)
  /\ ~getStatus(Cur).isActive

----------------------------------------------------------------------------
(* Properties of destroy(), in SpecDestroy *)

\* sentinel id is released, the instance is not active and the monitor is not monitoring
ReleasedAndStopped(id) ==
  /\ id <= Len(sentinels)
  /\ released(Cur, id)
  /\ ~getStatus(Cur).isActive
  /\ ~monitor.isMonitoring

\* C14: a destroy() called while a sentinel is active stops the monitor at once, and
\* eventually that sentinel is released (its released flag is true), getStatus().isActive
\* is false and the monitor is stopped.
C14_DestroyEventuallyReleases ==
  /\ [](SignalFoundActive("destroy") => ~monitor.isMonitoring)
  /\ \A id \in 1..MaxSentinels :
       (lastSignal.kind = "destroy" /\ lastSignal.sentinel = id) ~> ReleasedAndStopped(id)

\* destroy() found a native sentinel active, whose release then failed on the platform,
\* and the release is over
C14_DestroyedAndReleased ==
  /\ SignalFoundActive("destroy")
  /\ sentinels[lastSignal.sentinel].strategy = Native
  /\ rel.pc = "idle" /\ rel.sentinel = lastSignal.sentinel /\ rel.failed
  /\ ReleasedAndStopped(lastSignal.sentinel)
  /\ destroyed /\ ~listening

\* C15: a request() made after destroy() never acquires a sentinel, and when it has
\* returned getStatus().isActive is false and the monitor is not monitoring.
C15_DestroyIsTerminal ==
  \A c \in Calls :
    req[c].afterDestroy
      => /\ ~(req[c].pc = "resolved" /\ req[c].i >= 1)
         /\ (c = Latest /\ lastCall = "request")
              => ~getStatus(Cur).isActive /\ ~monitor.isMonitoring

----------------------------------------------------------------------------
(* Properties of the sentinels, in SpecSentinels *)

\* C19: for the sentinels of every strategy, once `released` is true it is true in
\* every later state, whatever release() calls, platform revocations and listener
\* registrations follow; and no sentinel disappears.
C19_ReleasedIsMonotonic ==
  [][/\ Len(sentinels') >= Len(sentinels)
     /\ \A id \in 1..Len(sentinels) :
          released(Cur, id)
            => sentinels'[id].released \/ sentinels'[id].native = "released"]_vars

\* a sentinel was released and its holder has registered a listener on it afterwards
C19_ListenerOnReleasedSentinel ==
  \E id \in 1..Len(sentinels) :
    /\ released(Cur, id)
    /\ ~sentinels[id].subscribed
    /\ "caller" \in sentinels[id].listeners

\* C20: the release listener a holder registered on a sentinel is invoked at most once,
\* and only if it was registered before the sentinel was released; once the sentinel's
\* release() has run, it has been invoked exactly once if it was registered, and a
\* release() called again invokes nothing.
C20_SubscribersCalledOnce ==
  \A id \in 1..Len(sentinels) :
    /\ sentinels[id].calls <= (IF sentinels[id].subscribed THEN 1 ELSE 0)
    /\ (sentinels[id].released /\ id \notin direct /\ ~(rel.pc = "sentinel" /\ rel.sentinel = id))
         => sentinels[id].calls = (IF sentinels[id].subscribed THEN 1 ELSE 0)

\* C21: when a strategy's release() has returned, every sentinel it found in the
\* strategy's active set is marked released and the active set is empty, also when
\* the platform failed to release some of them.
C21_StrategyReleaseLeavesNothing ==
  sweep.pc = "returned"
    => /\ activeSets[sweep.strategy] = {}
       /\ \A id \in sweep.ids : sentinels[id].released

\* the native strategy's release() has returned after releasing two sentinels, one of
\* which the platform failed to release
C21_NativeSwept ==
  /\ sweep.pc = "returned" /\ sweep.strategy = Native
  /\ Cardinality(sweep.ids) >= 2
  /\ \E id \in sweep.ids : sentinels[id].native = "held" /\ sentinels[id].released
  /\ \E id \in sweep.ids : sentinels[id].native = "released"
  /\ activeSets[Native] = {}

----------------------------------------------------------------------------
(* Properties of the strategies' errors, in Spec *)

\* the failure of the latest strategy a request() in flight has tried
LastStrategyError(c) == IF req[c].pc \in Finished THEN "none" ELSE req[c].error

\* C22: the code of every failure of a strategy's request() is NOT_SUPPORTED,
\* PERMISSION_DENIED, TIMEOUT or STRATEGY_FAILED (a platform error that fits no other
\* class giving STRATEGY_FAILED).
C22_StrategyErrorsClassified ==
  \A c \in Calls :
    LastStrategyError(c) \in
      {"none", "NOT_SUPPORTED", "PERMISSION_DENIED", "TIMEOUT", "STRATEGY_FAILED"}

\* C23: whenever the acquisition a request() waits for is abandoned, because the
\* timeout elapsed or because the abort signal fired first, the strategy's error has
\* the code TIMEOUT.
C23_AbandonedIsTimeout ==
  \A c \in Calls :
    req[c].pc = "wait" =>
      \A latency \in Latencies, result \in PlatformResults(strategies[req[c].i]) :
        LET setup == SetupSettles(strategies[req[c].i], latency, result)
        IN  AwaitSetup(setup, req[c].timeout, req[c].abortAt).abandoned
              => strategySettles(Cur, c, latency, result).req[c].error = "TIMEOUT"

\* WakeLock.getSupportedStrategies(): the names of this.strategies, in its order
getSupportedStrategies == [j \in 1..Len(strategies) |-> strategies[j]]

\* the sentinels a step creates
Created == {id \in 1..Len(sentinels') : id > Len(sentinels)}

\* C24: the strategies request() goes through are this.strategies from its first entry
\* on, one entry further only when the entry before has failed; every entry was
\* supported at construction and no entry has a lower priority number than an earlier
\* one; whatever a step acquires belongs to the entry the call is at; once an entry
\* has succeeded the call goes to no other entry.  getSupportedStrategies() lists the
\* same entries in the same order.
C24_AttemptsFollowSupportedOrder ==
  [][/\ \A j \in 1..Len(strategies) :
          /\ strategies[j] \in env.supported
          /\ strategies[j] \in {config.strategies[k] : k \in 1..Len(config.strategies)}
          /\ getSupportedStrategies[j] = strategies[j]
          /\ \A k \in 1..(j - 1) : priority(strategies[k]) <= priority(strategies[j])
     /\ Len(getSupportedStrategies) = Len(strategies)
     /\ \A c \in Calls :
          /\ req'[c].i \in {req[c].i, req[c].i + 1}
          /\ req'[c].i <= Len(strategies) + 1
          /\ (req[c].i > 0 /\ req'[c].i = req[c].i + 1)
               => /\ req[c].pc \in {"try", "wait"}
                  /\ req'[c].error # "none"
                  /\ Created = {}
          /\ req[c].pc \in {"adopt", "resolved", "rejected"} => req'[c].i = req[c].i
          /\ req'[c].pc = "adopt" /\ req[c].pc # "adopt"
               => /\ req'[c].i = req[c].i
                  /\ sentinels'[req'[c].sentinel].strategy = strategies[req[c].i]
     /\ \A id \in Created :
          \E c \in Calls : /\ req[c].pc \in {"try", "wait"}
                           /\ sentinels'[id].strategy = strategies[req[c].i]]_vars

\* a request() succeeded with the second entry of a list that the constructor had to
\* sort or to filter
C24_SecondEntrySucceeded ==
  \E c \in Calls :
    /\ req[c].pc = "resolved" /\ req[c].i = 2
    /\ strategies # config.strategies
    /\ priority(strategies[1]) < priority(strategies[2])
    /\ events # <<>>

----------------------------------------------------------------------------
(* Properties of a revoked native lock, in SpecSentinels *)

\* no release() of sentinel id is in flight
NotBeingReleased(id) ==
  /\ id \notin direct
  /\ ~(rel.pc # "idle" /\ rel.sentinel = id)

\* C25: a step in which the platform revokes the native lock of the active sentinel,
\* no release() of it being in flight, leaves the wrapper marked released and out of
\* the native strategy's active set, clears activeSentinel and currentStrategy and adds
\* exactly one notification, 'disabled' with reason 'automatic-release'; and no step
\* taken while a revoked sentinel is not being released, a release() called on it
\* included, invokes its subscriber or starts a platform release.
C25_RevocationClearsAndNotifiesOnce ==
  [][\A id \in 1..Len(sentinels) :
       /\ (/\ sentinels[id].native = "held" /\ sentinels'[id].native = "released"
           /\ NotBeingReleased(id)
           /\ activeSentinel = id)
            => /\ sentinels'[id].released
               /\ id \notin activeSets'[Native]
               /\ activeSentinel' = NoSentinel
               /\ currentStrategy' = NoStrategy
               /\ events' = Append(events, [type |-> "disabled", a |-> sentinels[id].type,
                                            b |-> "automatic-release"])
       /\ (sentinels[id].native = "released" /\ NotBeingReleased(id))
            => /\ sentinels'[id].calls = sentinels[id].calls
               /\ sentinels'[id].released
               /\ id \notin direct']_vars

\* the native lock of a sentinel with a subscriber was revoked while it was the active
\* sentinel: the subscriber has run once, through the native event alone
C25_RevokedWithSubscriber ==
  \E id \in Held :
    /\ sentinels[id].native = "released" /\ sentinels[id].released
    /\ sentinels[id].subscribed /\ sentinels[id].calls = 1
    /\ NotBeingReleased(id)
    /\ activeSentinel = NoSentinel /\ currentStrategy = NoStrategy
    /\ OneDisabled(id, "automatic-release")

----------------------------------------------------------------------------
(* Properties of the timer strategy, in SpecTimers *)

TimerSentinels == {id \in 1..Len(sentinels) : sentinels[id].strategy = Timer}

\* C26: once a timer sentinel is released, none of the intervals created for it, the
\* placeholder included, is still scheduled, and its worker, if it had one, does not
\* run any more.
C26_NothingRunsAfterRelease ==
  \A id \in TimerSentinels :
    sentinels[id].released
      => /\ sentinels[id].timer.intervals = {}
         /\ sentinels[id].timer.worker \in {"none", "closed", "terminated"}

\* the periods of the tickers running for timer sentinel id: the main-thread intervals
\* with a callback, and the worker's interval
Tickers(id) ==
  {x.ms : x \in {y \in sentinels[id].timer.intervals : y.ms > 0}}
    \cup (IF sentinels[id].timer.worker = "ticking" THEN {sentinels[id].timer.workerMs} ELSE {})

\* C27: an unreleased timer sentinel whose visibility listener has run has a ticker
\* running at 500 ms if the page is hidden and at 1000 ms if it is visible.
C27_TickerFollowsVisibility ==
  \A id \in TimerSentinels :
    (~sentinels[id].released /\ sentinels[id].timer.adjusted)
      => (IF hidden THEN AGGRESSIVE_INTERVAL ELSE DEFAULT_INTERVAL) \in Tickers(id)

----------------------------------------------------------------------------
(* Properties of the permission manager, in SpecPermissions *)

\* C28: a checkPermissions() that finds a cache entry whose age is at most the expiry
\* returns the entry and leaves it and its timestamp alone; one that finds an older
\* entry returns what the platform reports now, and that result is the entry
\* afterwards, with the time of the call as its timestamp (no entry is left when the
\* platform reports nothing and nothing is assumed).
C28_CacheEntryExpires ==
  (lastCheck.op = "checkPermissions" /\ lastCheck.age >= 0) =>
    LET type == lastCheck.type
    IN  IF lastCheck.age <= cacheExpiryTime
        THEN /\ lastCheck.value = lastCheck.entry
             /\ permissionCache[type] = lastCheck.entry
             /\ cacheTimestamps[type] = lastCheck.at - lastCheck.age
        ELSE /\ lastCheck.platform # "null" => lastCheck.value = lastCheck.platform
             /\ lastCheck.value # "null"
                  => /\ permissionCache[type] = lastCheck.value
                     /\ cacheTimestamps[type] = lastCheck.at
             /\ lastCheck.value = "null"
                  => /\ permissionCache[type] = "null"
                     /\ cacheTimestamps[type] = 0

\* an entry one millisecond older than the expiry was found, and the platform's
\* different report has replaced it
C28_ExpiredEntryReplaced ==
  /\ lastCheck.op = "checkPermissions"
  /\ lastCheck.age = cacheExpiryTime + 1
  /\ lastCheck.entry \notin {"null", lastCheck.value}
  /\ lastCheck.value = lastCheck.platform
  /\ permissionCache[lastCheck.type] = lastCheck.value
  /\ cacheTimestamps[lastCheck.type] = now

\* C29: a canRequestWithoutPrompt() that has to ask the platform (no cache entry, or
\* one older than the expiry) returns true exactly when the platform reports 'granted'
\* or 'denied', and false when it reports 'prompt' or nothing.
C29_NoPromptOnlyWhenDefinite ==
  (/\ lastCheck.op = "canRequestWithoutPrompt"
   /\ (lastCheck.age = -1 \/ lastCheck.age > cacheExpiryTime))
    => (lastCheck.value = "true" <=> lastCheck.platform \in {"granted", "denied"})

----------------------------------------------------------------------------
(* Properties of the EventEmitter, in SpecEmitter *)

\* C30: whatever emit() calls are made, also from inside a listener while a dispatch
\* is in progress, no listener registered with once() has been invoked more than once
\* since its registration, and when an emit() returns no once() listener is registered.
C30_OnceListenerRunsOnce ==
  [][emitter'.emits > emitter.emits
       => /\ emitter'.onceListeners = <<>>
          /\ \A l \in Listeners :
               inList(emitter.onceListeners, l) => emitter'.onceInvoked[l] <= 1]_vars

----------------------------------------------------------------------------
(* Properties of the strategies' kinds, in Spec *)

\* C31: a step in which the native, video or audio strategy is asked for the 'system'
\* kind fails with NOT_SUPPORTED, creates no sentinel, starts no platform acquisition
\* and leaves every active set as it was; asked for the 'screen' kind the same
\* strategy starts its acquisition.
C31_SystemKindNotSupported ==
  [][\A c \in Calls :
       (/\ req[c].pc = "try" /\ req'[c] # req[c]
        /\ req[c].i <= Len(strategies)
        /\ strategies[req[c].i] # Timer)
         => IF req[c].type = "system"
            THEN /\ req'[c].pc = "try" /\ req'[c].i = req[c].i + 1
                 /\ req'[c].error = "NOT_SUPPORTED"
                 /\ sentinels' = sentinels
                 /\ activeSets' = activeSets
                 /\ abandoned' = abandoned
                 /\ orphans' = orphans
            ELSE /\ req'[c].pc = "wait" /\ req'[c].i = req[c].i]_vars

\* the native, video or audio strategy at the head of the list has refused 'system'
C31_SystemRefused ==
  \E c \in Calls :
    /\ req[c].type = "system" /\ req[c].pc = "try" /\ req[c].i = 2
    /\ req[c].error = "NOT_SUPPORTED"
    /\ strategies[1] \in {Native, Video, Audio}
    /\ activeSets[strategies[1]] = {}

----------------------------------------------------------------------------
(* Properties of the battery signal, in SpecEvents *)

\* C32: a battery change reported while batteryOptimization is off, or while the
\* battery is charging, or at a level above 15%, starts no release: the active
\* sentinel, the sentinels, the release state and the monitor stay as they were, and
\* the only notification added is the 'battery-change' passed on to the subscribers
\* (none when the monitor is not subscribed to the battery).
C32_NoReleaseUnlessLowBattery ==
  [][(/\ signals' # signals
      /\ lastSignal'.kind = "battery"
      /\ (~config.batteryOptimization \/ battery'.charging \/ battery'.level > 15))
       => /\ activeSentinel' = activeSentinel
          /\ currentStrategy' = currentStrategy
          /\ sentinels' = sentinels
          /\ activeSets' = activeSets
          /\ isReleasing' = isReleasing
          /\ rel' = rel
          /\ monitor' = monitor
          /\ events' = IF monitor.subscribed
                       THEN Append(Observe(Cur).events,
                                   [type |-> "battery-change", a |-> battery'.level,
                                    b |-> battery'.charging])
                       ELSE Observe(Cur).events]_vars

\* with batteryOptimization on, a low level was reported while charging and the
\* sentinel that was active is still active
C32_LowButCharging ==
  /\ SignalFoundActive("battery")
  /\ config.batteryOptimization
  /\ battery.level = 15 /\ battery.charging
  /\ Notified("battery-change", 15, TRUE)
  /\ activeSentinel = lastSignal.sentinel
  /\ ~released(Cur, activeSentinel)
  /\ getStatus(Cur).isActive
  /\ rel.pc = "idle"

\* ---------------------------------------------------------------------------
\* Properties of the sentinels the strategies hold, in Spec
\* ---------------------------------------------------------------------------

\* the sentinels that the strategies hold and that are not released
HeldUnreleased ==
  {id \in UNION {activeSets[s] : s \in StrategyNames} : ~released(Cur, id)}

\* C33: whenever no request() or release() is under way, the strategies hold
\* at most one unreleased sentinel, and none when getStatus().isActive is false
C33_NoSentinelLeftHeld ==
  Quiescent(Cur)
    => /\ Cardinality(HeldUnreleased) <= 1
       /\ ~getStatus(Cur).isActive => HeldUnreleased = {}

\* ---------------------------------------------------------------------------
\* Properties of the measured attempt, in Spec
\* ---------------------------------------------------------------------------

\* C34: the sentinel that a strategy's request operation produces during a
\* request() is the one the request() adopts: the strategy is asked once
C34_StrategyRequestedOnce ==
  [][\A c \in Calls :
       (req'[c] # req[c] /\ req[c].pc \in {"try", "wait"} /\ Created # {})
         => /\ req'[c].pc = "adopt"
            /\ req'[c].sentinel \in Created]_vars

\* ---------------------------------------------------------------------------
\* Properties of the monitor's running state, in Spec
\* ---------------------------------------------------------------------------

\* C35: whenever no request() or release() is under way and the WakeLock has
\* no active sentinel, the monitor is not monitoring
C35_IdleMonitorStopped ==
  (Quiescent(Cur) /\ activeSentinel = NoSentinel) => ~monitor.isMonitoring

\* ---------------------------------------------------------------------------
\* Properties of the adopted sentinel under overlapping calls, in SpecOverlapping
\* ---------------------------------------------------------------------------

\* C36: the final step of a release() that began before the active sentinel was
\* adopted leaves that sentinel in place: it stays the active sentinel,
\* getStatus().isActive stays true and the monitor is not stopped
C36_ReleaseKeepsNewSentinel ==
  [][(/\ rel.pc = "continue" /\ rel'.pc = "idle"
      /\ activeSentinel # NoSentinel
      /\ activeSentinel # rel.sentinel
      /\ ~released(Cur, activeSentinel))
       => /\ activeSentinel' = activeSentinel
          /\ currentStrategy' = currentStrategy
          /\ monitor' = monitor]_vars

\* ---------------------------------------------------------------------------
\* Properties of the monitor's timer and battery handlers, in SpecEvents
\* ---------------------------------------------------------------------------

\* C37: whenever the monitor is not monitoring, no sampling timer is scheduled
\* and no battery handler is subscribed
C37_StoppedMonitorIsClean ==
  ~monitor.isMonitoring => (~monitor.monitoringTimer /\ ~monitor.subscribed)

\* ---------------------------------------------------------------------------
\* Properties of passive and non-passive checks, in SpecPermissions
\* ---------------------------------------------------------------------------

\* C38: a non-passive checkPermissions made while the platform reports no
\* permission state returns null, also when the call before it was a passive
\* check that found no cache entry and no platform report either
C38_NonPassiveIgnoresPassive ==
  [][(/\ lastCheck' # lastCheck
      /\ lastCheck.op = "canRequestWithoutPrompt"
      /\ lastCheck.entry = "null" /\ lastCheck.platform = "null"
      /\ lastCheck'.op = "checkPermissions" /\ ~config.passive
      /\ lastCheck'.platform = "null")
       => lastCheck'.value = "null"]_vars

\* ---------------------------------------------------------------------------
\* Properties of getStatus() between calls, in SpecOverlapping
\* ---------------------------------------------------------------------------

\* C39: whenever no request() or release() is under way, getStatus() reports a
\* strategy exactly when it reports isActive, and a type exactly when it
\* reports isActive; before any request it reports inactive, no type, no strategy
C39_StatusConsistent ==
  /\ Quiescent(Cur)
       => /\ (getStatus(Cur).strategy # NoStrategy) <=> getStatus(Cur).isActive
          /\ (getStatus(Cur).type # "null") <=> getStatus(Cur).isActive
  /\ (\A c \in Calls : req[c].pc = "idle")
       => getStatus(Cur) = [isActive |-> FALSE, type |-> "null", strategy |-> NoStrategy]

====
